---- MODULE Spec2Model ----
(***************************************************************************)
(* Turn pipeline of the AI text RPG backend: the change validator of       *)
(* utils/responseParser.js and the state reducer updateGameState of        *)
(* controllers/gameController.js, applied turn after turn to the game      *)
(* state built by initializeGameState.                                     *)
(*                                                                         *)
(* A JavaScript string is a sequence of pieces; a piece is one character,  *)
(* or a literal of the source kept whole ("Added to inventory: ").         *)
(* Concatenation is \o.  A decoded JSON value is a record tagged with its  *)
(* typeof-like kind in field t and carrying its payload in field v.        *)
(***************************************************************************)
EXTENDS Integers, Sequences, FiniteSets, TLC

\* ------------------------------------------------------------------------
\* Bounds of the model
\* ------------------------------------------------------------------------
MaxTurns == 3
MaxLongTurns == 26
MaxClock == 1
QuietTurns == 22
MaxParses == 1
MaxDraw == 1
MaxRequests == 3
\* durations of status effects are multiples of 1/Grain
Grain == 2

\* ------------------------------------------------------------------------
\* JavaScript values
\* ------------------------------------------------------------------------
Undefined == [t |-> "undefined"]
Null == [t |-> "null"]
Num(n) == [t |-> "number", v |-> n]
\* a number that is not whole: n / Grain
Fraction(n) == [t |-> "number", v |-> n, of |-> Grain]
\* a number in units of 1/Grain
Scaled(x) == IF "of" \in DOMAIN x THEN x.v ELSE x.v * Grain
NaN == [t |-> "nan"]
Str(s) == [t |-> "string", v |-> s]
Arr(s) == [t |-> "array", v |-> s]
Bool(b) == [t |-> "boolean", v |-> b]
\* an object is the sequence of its <<key, value>> entries in insertion order
Obj(entries) == [t |-> "object", v |-> entries]
Field(k, v) == <<(<<k>>), v>>
HasKey(v, k) == v.t = "object" /\ \E i \in 1..Len(v.v) : v.v[i][1] = <<k>>

\* property read v.k; the read of a property of null or undefined throws
\* and is guarded by the callers (CanRead)
CanRead(v) == v.t \notin {"null", "undefined"}
Get(v, k) ==
  IF HasKey(v, k) THEN v.v[CHOOSE i \in 1..Len(v.v) : v.v[i][1] = <<k>>][2] ELSE Undefined
IsObjectType(v) == v.t \in {"object", "array", "null"}

Truthy(v) ==
  CASE v.t = "undefined" -> FALSE
    [] v.t = "null" -> FALSE
    [] v.t = "nan" -> FALSE
    [] v.t = "number" -> v.v # 0
    [] v.t = "string" -> v.v # <<>>
    [] v.t = "boolean" -> v.v
    [] OTHER -> TRUE

\* ------------------------------------------------------------------------
\* Strings
\* ------------------------------------------------------------------------
WhiteSpace == {" ", "\t", "\n"}
Digits == <<"0", "1", "2", "3", "4", "5", "6", "7", "8", "9">>
UpperCase == <<"A", "B", "C", "D", "E", "F", "G", "H", "I", "J", "K", "L", "M",
               "N", "O", "P", "Q", "R", "S", "T", "U", "V", "W", "X", "Y", "Z">>
LowerCase == <<"a", "b", "c", "d", "e", "f", "g", "h", "i", "j", "k", "l", "m",
               "n", "o", "p", "q", "r", "s", "t", "u", "v", "w", "x", "y", "z">>

RECURSIVE TrimStart(_)
TrimStart(s) == IF s # <<>> /\ Head(s) \in WhiteSpace THEN TrimStart(Tail(s)) ELSE s
RECURSIVE TrimEnd(_)
TrimEnd(s) ==
  IF s # <<>> /\ s[Len(s)] \in WhiteSpace THEN TrimEnd(SubSeq(s, 1, Len(s) - 1)) ELSE s
Trim(s) == TrimEnd(TrimStart(s))

LowerOfUpper ==
  [c \in {UpperCase[i] : i \in 1..26} |-> LowerCase[CHOOSE i \in 1..26 : UpperCase[i] = c]]
LowerOf(c) == IF c \in DOMAIN LowerOfUpper THEN LowerOfUpper[c] ELSE c
ToLowerCase(s) == [i \in 1..Len(s) |-> LowerOf(s[i])]

\* s.replace(/\s+/g, underscore): every maximal run of whitespace becomes one _
RECURSIVE ReplaceSpaces(_)
ReplaceSpaces(s) ==
  IF s = <<>> THEN <<>>
  ELSE IF Head(s) \in WhiteSpace
    THEN <<"_">> \o ReplaceSpaces(TrimStart(s))
    ELSE <<Head(s)>> \o ReplaceSpaces(Tail(s))

DigitOf(c) == (CHOOSE i \in 1..10 : Digits[i] = c) - 1
IsDigit(c) == \E i \in 1..10 : Digits[i] = c
RECURSIVE DecimalValue(_)
DecimalValue(s) ==
  IF s = <<>> THEN 0 ELSE 10 * DecimalValue(SubSeq(s, 1, Len(s) - 1)) + DigitOf(s[Len(s)])

\* Number(v) on the decoded values the model draws: decimal integer strings
\* (optionally signed, surrounded by whitespace); the empty string and null give 0
StringToNumber(s) ==
  LET u == Trim(s)
      neg == u # <<>> /\ Head(u) = "-"
      d == IF neg THEN Tail(u) ELSE u
  IN IF u = <<>> THEN Num(0)
     ELSE IF d # <<>> /\ \A i \in 1..Len(d) : IsDigit(d[i])
       THEN Num(IF neg THEN 0 - DecimalValue(d) ELSE DecimalValue(d))
       ELSE NaN
RECURSIVE ToNumber(_)
ToNumber(v) ==
  CASE v.t = "number" -> v
    [] v.t = "string" -> StringToNumber(v.v)
    [] v.t = "null" -> Num(0)
    [] v.t = "boolean" -> Num(IF v.v THEN 1 ELSE 0)
    [] v.t = "array" ->
         IF v.v = <<>> THEN Num(0)
         ELSE IF Len(v.v) = 1 THEN ToNumber(v.v[1]) ELSE NaN
    [] OTHER -> NaN

\* String(v)
RECURSIVE ToStr(_)
RECURSIVE Join(_)
Join(a) ==
  IF a = <<>> THEN <<>>
  ELSE (IF CanRead(Head(a)) THEN ToStr(Head(a)) ELSE <<>>)
       \o (IF Len(a) > 1 THEN <<",">> \o Join(Tail(a)) ELSE <<>>)
ToStr(v) ==
  CASE v.t = "string" -> v.v
    [] v.t = "number" -> <<ToString(v.v)>>
    [] v.t = "nan" -> <<"NaN">>
    [] v.t = "null" -> <<"null">>
    [] v.t = "undefined" -> <<"undefined">>
    [] v.t = "boolean" -> IF v.v THEN <<"true">> ELSE <<"false">>
    [] v.t = "array" -> Join(v.v)
    [] OTHER -> <<"[object Object]">>

Includes(list, x) == \E i \in 1..Len(list) : list[i] = x
IndexOf(list, x) ==
  IF Includes(list, x) THEN CHOOSE i \in 1..Len(list) :
       list[i] = x /\ \A j \in 1..(i - 1) : list[j] # x
  ELSE 0
Splice(list, i) == SubSeq(list, 1, i - 1) \o SubSeq(list, i + 1, Len(list))
Min(a, b) == IF a < b THEN a ELSE b
Max(a, b) == IF a > b THEN a ELSE b

\* ------------------------------------------------------------------------
\* validateStateChanges (utils/responseParser.js)
\* ------------------------------------------------------------------------
NoFields == <<>>
Has(f, k) == k \in DOMAIN f

IsStringValue(v) == v.t = "string"
TrimmedStrings(a) ==
  LET strs == SelectSeq(a, IsStringValue) IN [i \in 1..Len(strs) |-> Trim(strs[i].v)]

\* ValidateHealth without the clamp to [0,100]
ValidateHealthUnclamped(changes) ==
  IF Get(changes, "health").t # "undefined"
    THEN LET health == ToNumber(Get(changes, "health"))
         IN IF health.t # "nan" THEN "health" :> health.v ELSE NoFields
    ELSE NoFields
ValidateHealth(changes) ==
  IF Get(changes, "health").t # "undefined"
    THEN LET health == ToNumber(Get(changes, "health"))
         IN IF health.t # "nan"
              THEN "health" :> Max(0, Min(100, health.v))
              ELSE NoFields
    ELSE NoFields

ValidateAddItems(changes) ==
  LET a == Get(changes, "addItems")
  IN IF Truthy(a)
       THEN IF a.t = "array" THEN "addItems" :> TrimmedStrings(a.v)
            ELSE IF a.t = "string" THEN "addItems" :> <<Trim(a.v)>>
            ELSE NoFields
       ELSE NoFields

\* ValidateRemoveItems without the check against the inventory
ValidateRemoveItemsUnchecked(changes, currentState) ==
  LET r == Get(changes, "removeItems")
  IN IF Truthy(r)
       THEN IF r.t = "array" THEN "removeItems" :> TrimmedStrings(r.v)
            ELSE IF r.t = "string" THEN "removeItems" :> <<Trim(r.v)>>
            ELSE NoFields
       ELSE NoFields
ValidateRemoveItems(changes, currentState) ==
  LET r == Get(changes, "removeItems")
      Held(item) == Includes(currentState.player.inventory, item)
  IN IF Truthy(r)
       THEN IF r.t = "array" THEN "removeItems" :> SelectSeq(TrimmedStrings(r.v), Held)
            ELSE IF r.t = "string"
              THEN IF Held(Trim(r.v)) THEN "removeItems" :> <<Trim(r.v)>> ELSE NoFields
            ELSE NoFields
       ELSE NoFields

NormalizeId(id) == ReplaceSpaces(ToLowerCase(ToStr(id)))
\* the id is kept as it was written
ValidateNewLocationAsWritten(changes) ==
  LET location == Get(changes, "newLocation")
  IN IF Truthy(location)
          /\ Truthy(Get(location, "id"))
          /\ Truthy(Get(location, "name"))
          /\ Truthy(Get(location, "description"))
       THEN "newLocation" :>
              [id |-> ToStr(Get(location, "id")),
               name |-> Trim(ToStr(Get(location, "name"))),
               description |-> Trim(ToStr(Get(location, "description")))]
       ELSE NoFields
ValidateNewLocation(changes) ==
  LET location == Get(changes, "newLocation")
  IN IF Truthy(location)
          /\ Truthy(Get(location, "id"))
          /\ Truthy(Get(location, "name"))
          /\ Truthy(Get(location, "description"))
       THEN "newLocation" :>
              [id |-> NormalizeId(Get(location, "id")),
               name |-> Trim(ToStr(Get(location, "name"))),
               description |-> Trim(ToStr(Get(location, "description")))]
       ELSE NoFields

\* a validated quest is a string value or an object {title, description, objectives}
QuestObject(q) ==
  [t |-> "object",
   title |-> Trim(ToStr(Get(q, "title"))),
   description |-> IF Truthy(Get(q, "description"))
                     THEN Trim(ToStr(Get(q, "description"))) ELSE <<>>,
   objectives |-> IF Get(q, "objectives").t = "array" THEN Get(q, "objectives").v ELSE <<>>]
QuestAccepted(quest) ==
  quest.t = "string" \/ (IsObjectType(quest) /\ Truthy(Get(quest, "title")))
\* the filter reads quest.title of every element whose typeof is 'object',
\* null included, and that read throws
AddQuestsThrows(changes) ==
  LET q == Get(changes, "addQuests")
  IN Truthy(q) /\ q.t = "array" /\ \E i \in 1..Len(q.v) : q.v[i].t = "null"
ValidateAddQuests(changes) ==
  LET q == Get(changes, "addQuests")
      kept == SelectSeq(q.v, QuestAccepted)
  IN IF Truthy(q)
       THEN IF q.t = "array"
              THEN "addQuests" :>
                     [i \in 1..Len(kept) |->
                        IF kept[i].t = "string" THEN Str(Trim(kept[i].v))
                        ELSE QuestObject(kept[i])]
            ELSE IF q.t = "string" THEN "addQuests" :> <<Str(Trim(q.v))>>
            ELSE IF IsObjectType(q) /\ Truthy(Get(q, "title"))
              THEN "addQuests" :> <<QuestObject(q)>>
            ELSE NoFields
       ELSE NoFields

\* Object.entries of an object, or of an array (its indices as keys)
Entries(v) ==
  IF v.t = "array" THEN [i \in 1..Len(v.v) |-> <<(<<ToString(i - 1)>>), v.v[i]>>]
  ELSE v.v
RECURSIVE NpcEntries(_, _)
NpcEntries(validated, entries) ==
  IF entries = <<>> THEN validated
  ELSE LET npcName == Trim(Head(entries)[1])
           value == Head(entries)[2]
       IN NpcEntries(
            IF value.t = "number"
              THEN (npcName :> Num(Max(0, Min(100, value.v)))) @@ validated
            ELSE IF value.t = "string"
              THEN (npcName :> Str(Trim(value.v))) @@ validated
            ELSE validated,
            Tail(entries))
ValidateNpcRelationships(changes) ==
  LET n == Get(changes, "npcRelationships")
  IN IF Truthy(n) /\ IsObjectType(n)
       THEN "npcRelationships" :> NpcEntries(NoFields, Entries(n))
       ELSE NoFields

ValidateExperience(changes) ==
  IF Get(changes, "experience").t # "undefined"
    THEN LET exp == ToNumber(Get(changes, "experience"))
         IN IF exp.t # "nan" THEN "experience" :> Max(0, exp.v) ELSE NoFields
    ELSE NoFields

\* the duration of a validated effect is counted in units of 1/Grain
EffectAccepted(effect) ==
  Truthy(effect) /\ IsObjectType(effect) /\ Truthy(Get(effect, "name"))
ValidEffect(effect) ==
  [name |-> Trim(ToStr(Get(effect, "name"))),
   description |-> IF Truthy(Get(effect, "description"))
                     THEN Trim(ToStr(Get(effect, "description"))) ELSE <<>>,
   duration |-> IF Truthy(ToNumber(Get(effect, "duration")))
                  THEN Scaled(ToNumber(Get(effect, "duration"))) ELSE 5 * Grain,
   effect |-> IF Truthy(Get(effect, "effect")) THEN Get(effect, "effect") ELSE Obj(<<>>)]
ValidateStatusEffects(changes) ==
  LET e == Get(changes, "statusEffects")
      kept == SelectSeq(e.v, EffectAccepted)
  IN IF Truthy(e) /\ e.t = "array"
       THEN "statusEffects" :> [i \in 1..Len(kept) |-> ValidEffect(kept[i])]
       ELSE NoFields

ValidationThrows(changes) == ~CanRead(changes) \/ AddQuestsThrows(changes)
validateStateChanges(changes, currentState) ==
  ValidateHealth(changes)
    @@ ValidateAddItems(changes)
    @@ ValidateRemoveItems(changes, currentState)
    @@ ValidateNewLocation(changes)
    @@ ValidateAddQuests(changes)
    @@ ValidateNpcRelationships(changes)
    @@ ValidateExperience(changes)
    @@ ValidateStatusEffects(changes)

\* ------------------------------------------------------------------------
\* updateGameState (controllers/gameController.js)
\* ------------------------------------------------------------------------
Entry(type, text) == [type |-> type, text |-> text]
Push(state, entry) == [state EXCEPT !.gameHistory = Append(@, entry)]

\* RecordAction stamping the action entry of the history with the clock too
RecordActionStamped(state, action, narrative, now) ==
  [Push(Push(state, [type |-> "action", text |-> action, timestamp |-> now]),
        Entry("narrative", narrative))
     EXCEPT !.lastAction = [t |-> "object", text |-> action, timestamp |-> now]]
\* lines 416-423
RecordAction(state, action, narrative, now) ==
  [Push(Push(state, Entry("action", action)), Entry("narrative", narrative))
     EXCEPT !.lastAction = [t |-> "object", text |-> action, timestamp |-> now]]

\* ApplyHealth assigning gameOver from the health test instead of only setting it
ApplyHealthResetsGameOver(state, stateChanges) ==
  IF Has(stateChanges, "health")
    THEN LET s == [state EXCEPT !.player.health = stateChanges.health]
         IN IF s.player.health <= 0
              THEN [Push(s, Entry("system", <<"You have died. Game over.">>))
                      EXCEPT !.gameOver = TRUE]
              ELSE [s EXCEPT !.gameOver = FALSE]
    ELSE state
\* ApplyHealth testing health < 0 instead of health <= 0
ApplyHealthBelowZero(state, stateChanges) ==
  IF Has(stateChanges, "health")
    THEN LET s == [state EXCEPT !.player.health = stateChanges.health]
         IN IF s.player.health < 0
              THEN [Push(s, Entry("system", <<"You have died. Game over.">>))
                      EXCEPT !.gameOver = TRUE]
              ELSE s
    ELSE state

\* lines 427-439
ApplyHealth(state, stateChanges) ==
  IF Has(stateChanges, "health")
    THEN LET s == [state EXCEPT !.player.health = stateChanges.health]
         IN IF s.player.health <= 0
              THEN [Push(s, Entry("system", <<"You have died. Game over.">>))
                      EXCEPT !.gameOver = TRUE]
              ELSE s
    ELSE state

\* AddItems without the test for an item already held
RECURSIVE AddItemsUnchecked(_, _)
AddItemsUnchecked(state, items) ==
  IF items = <<>> THEN state
  ELSE LET item == Head(items)
       IN AddItemsUnchecked(
            Push([state EXCEPT !.player.inventory = Append(@, item)],
                 Entry("system", <<"Added to inventory: ">> \o item)),
            Tail(items))

\* lines 441-455
RECURSIVE AddItems(_, _)
AddItems(state, items) ==
  IF items = <<>> THEN state
  ELSE LET item == Head(items)
       IN AddItems(
            IF ~Includes(state.player.inventory, item)
              THEN Push([state EXCEPT !.player.inventory = Append(@, item)],
                        Entry("system", <<"Added to inventory: ">> \o item))
              ELSE state,
            Tail(items))
ApplyAddItems(state, stateChanges) ==
  IF Has(stateChanges, "addItems") THEN AddItems(state, stateChanges.addItems) ELSE state

\* RemoveItems with the notification outside the test of the index
RECURSIVE RemoveItemsAlwaysLogged(_, _)
RemoveItemsAlwaysLogged(state, items) ==
  IF items = <<>> THEN state
  ELSE LET item == Head(items)
           index == IndexOf(state.player.inventory, item)
       IN RemoveItemsAlwaysLogged(
            Push(IF index # 0
                   THEN [state EXCEPT !.player.inventory = Splice(@, index)]
                   ELSE state,
                 Entry("system", <<"Removed from inventory: ">> \o item)),
            Tail(items))

\* lines 457-471
RECURSIVE RemoveItems(_, _)
RemoveItems(state, items) ==
  IF items = <<>> THEN state
  ELSE LET item == Head(items)
           index == IndexOf(state.player.inventory, item)
       IN RemoveItems(
            IF index # 0
              THEN Push([state EXCEPT !.player.inventory = Splice(@, index)],
                        Entry("system", <<"Removed from inventory: ">> \o item))
              ELSE state,
            Tail(items))
ApplyRemoveItems(state, stateChanges) ==
  IF Has(stateChanges, "removeItems")
    THEN RemoveItems(state, stateChanges.removeItems) ELSE state

\* ApplyNewLocation putting a new id at the front of discoveredLocations
ApplyNewLocationUnshift(state, stateChanges) ==
  IF Has(stateChanges, "newLocation")
    THEN LET location == stateChanges.newLocation
             s == [state EXCEPT !.currentLocation = location]
         IN IF location.id # <<>> /\ ~Includes(s.discoveredLocations, location.id)
              THEN Push([s EXCEPT !.discoveredLocations = <<location.id>> \o @,
                                  !.player.experience = @ + 10],
                        Entry("system", <<"Discovered new location: ">> \o location.name))
              ELSE s
    ELSE state

\* lines 473-490
IsNewDiscovery(state, location) ==
  location.id # <<>> /\ ~Includes(state.discoveredLocations, location.id)
ApplyNewLocation(state, stateChanges) ==
  IF Has(stateChanges, "newLocation")
    THEN LET location == stateChanges.newLocation
             s == [state EXCEPT !.currentLocation = location]
         IN IF IsNewDiscovery(s, location)
              THEN Push([s EXCEPT !.discoveredLocations = Append(@, location.id),
                                  !.player.experience = @ + 10],
                        Entry("system", <<"Discovered new location: ">> \o location.name))
              ELSE s
    ELSE state

\* lines 492-514
\* object quests are never found present
ExistingQuestByString(quests, quest) == quest.t = "string" /\ Includes(quests, quest)
ExistingQuest(quests, quest) ==
  IF quest.t = "string" THEN Includes(quests, quest)
  ELSE \E i \in 1..Len(quests) : quests[i].t = "object" /\ quests[i].title = quest.title
RECURSIVE AddQuests(_, _)
AddQuests(state, quests) ==
  IF quests = <<>> THEN state
  ELSE LET quest == Head(quests)
           questName == IF quest.t = "string" THEN quest.v ELSE quest.title
       IN AddQuests(
            IF ~ExistingQuest(state.player.quests, quest)
              THEN [Push([state EXCEPT !.player.quests = Append(@, quest)],
                         Entry("system", <<"New quest: ">> \o questName))
                      EXCEPT !.player.experience = @ + 15]
              ELSE state,
            Tail(quests))
ApplyAddQuests(state, stateChanges) ==
  IF Has(stateChanges, "addQuests") THEN AddQuests(state, stateChanges.addQuests) ELSE state

\* the relationships of the turn replace the mapping
ApplyNpcRelationshipsAlone(state, stateChanges) ==
  IF Has(stateChanges, "npcRelationships")
    THEN [state EXCEPT !.npcRelationships = stateChanges.npcRelationships]
    ELSE state
\* lines 516-521
ApplyNpcRelationships(state, stateChanges) ==
  IF Has(stateChanges, "npcRelationships")
    THEN [state EXCEPT !.npcRelationships = stateChanges.npcRelationships @@ @]
    ELSE state

\* lines 523-546
RECURSIVE AddEffects(_, _)
AddEffects(state, effects) ==
  IF effects = <<>> THEN state
  ELSE LET effect == Head(effects)
           active == state.player.statusEffects
       IN AddEffects(
            IF ~\E i \in 1..Len(active) : active[i].name = effect.name
              THEN Push([state EXCEPT !.player.statusEffects =
                           Append(@, [name |-> effect.name,
                                      description |-> effect.description,
                                      duration |-> IF effect.duration # 0
                                                     THEN effect.duration ELSE 5 * Grain,
                                      effect |-> effect.effect])],
                        Entry("system", <<"Status effect: ">> \o effect.name
                                          \o <<" - ">> \o effect.description))
              ELSE state,
            Tail(effects))
ApplyStatusEffects(state, stateChanges) ==
  IF Has(stateChanges, "statusEffects")
    THEN AddEffects(state, stateChanges.statusEffects) ELSE state

\* lines 548-560
ApplyExperience(state, stateChanges) ==
  IF Has(stateChanges, "experience") /\ stateChanges.experience # 0
    THEN LET experienceGain == stateChanges.experience
             s == [state EXCEPT !.player.experience = @ + experienceGain]
         IN IF experienceGain > 0
              THEN Push(s, Entry("system", <<"Experience gained: ", ToString(experienceGain)>>))
              ELSE s
    ELSE state

\* lines 563-571
StillActive(effect) == effect.duration > 0
DecrementEffects(state) ==
  LET effects == state.player.statusEffects
  IN IF Len(effects) > 0
       THEN [state EXCEPT !.player.statusEffects =
               SelectSeq([i \in 1..Len(effects) |->
                            [effects[i] EXCEPT !.duration = @ - Grain]], StillActive)]
       ELSE state

\* AdvanceTime without the day heal once the game is over
AdvanceTimeNotWhenOver(state) ==
  LET s == [state EXCEPT !.timeElapsed = @ + 1]
  IN IF s.timeElapsed % 24 = 0
       THEN Push(IF s.gameOver THEN s
                 ELSE [s EXCEPT !.player.health = Min(100, @ + 10)],
                 Entry("system", <<"Day ", ToString(s.timeElapsed \div 24),
                                   " begins. You feel refreshed.">>))
       ELSE s

\* AdvanceTime applying the day heal on every turn
AdvanceTimeUncapped(state) ==
  LET s == [state EXCEPT !.timeElapsed = @ + 1]
  IN IF s.timeElapsed % 24 = 0
       THEN Push([s EXCEPT !.player.health = @ + 10],
                 Entry("system", <<"Day ", ToString(s.timeElapsed \div 24),
                                   " begins. You feel refreshed.">>))
       ELSE s
AdvanceTimeHealsEveryTurn(state) ==
  LET s == [state EXCEPT !.timeElapsed = @ + 1]
  IN Push([s EXCEPT !.player.health = Min(100, @ + 10)],
          Entry("system", <<"Day ", ToString(s.timeElapsed \div 24),
                            " begins. You feel refreshed.">>))

\* lines 573-586
DayLength == 24
DayHeal == 10
AdvanceTime(state) ==
  LET s == [state EXCEPT !.timeElapsed = @ + 1]
  IN IF s.timeElapsed % DayLength = 0
       THEN Push([s EXCEPT !.player.health = Min(100, @ + DayHeal)],
                 Entry("system", <<"Day ", ToString(s.timeElapsed \div DayLength),
                                   " begins. You feel refreshed.">>))
       ELSE s

\* LevelUp resetting experience to 0 instead of keeping the remainder
LevelUpDropsRemainder(state) ==
  LET currentLevel == IF state.player.level # 0 THEN state.player.level ELSE 1
      experienceThreshold == 100 * currentLevel
  IN IF state.player.experience >= experienceThreshold
       THEN Push([state EXCEPT !.player.level = currentLevel + 1,
                               !.player.experience = 0,
                               !.player.health = 100],
                 Entry("system", <<"Level Up! You are now level ",
                                   ToString(currentLevel + 1), ".">>))
       ELSE state

\* lines 588-607
LevelUp(state) ==
  LET currentLevel == IF state.player.level # 0 THEN state.player.level ELSE 1
      experienceThreshold == 100 * currentLevel
  IN IF state.player.experience >= experienceThreshold
       THEN Push([state EXCEPT !.player.level = currentLevel + 1,
                               !.player.experience = @ - experienceThreshold,
                               !.player.health = 100],
                 Entry("system", <<"Level Up! You are now level ",
                                   ToString(currentLevel + 1), ".">>))
       ELSE state

\* LimitHistory keeping the first 50 entries instead of the last 50
LimitHistoryKeepsOldest(history) ==
  IF Len(history) > 50 THEN SubSeq(history, 1, 50) ELSE history

\* lines 609-612
HistoryLimit == 50
LimitHistory(history) ==
  IF Len(history) > HistoryLimit
    THEN SubSeq(history, Len(history) - HistoryLimit + 1, Len(history))
    ELSE history

\* the reducer with the quests added before the items
ReducedQuestsFirst(currentState, action, narrative, stateChanges, now) ==
  LevelUp(AdvanceTime(DecrementEffects(
    ApplyExperience(ApplyStatusEffects(ApplyNpcRelationships(
      ApplyNewLocation(ApplyRemoveItems(ApplyAddItems(ApplyAddQuests(ApplyHealth(
        RecordAction(currentState, action, narrative, now),
        stateChanges), stateChanges), stateChanges), stateChanges),
      stateChanges), stateChanges), stateChanges), stateChanges))))

\* the reducer with the removals applied before the additions
ReducedRemovalsFirst(currentState, action, narrative, stateChanges, now) ==
  LevelUp(AdvanceTime(DecrementEffects(
    ApplyExperience(ApplyStatusEffects(ApplyNpcRelationships(ApplyAddQuests(
      ApplyNewLocation(ApplyAddItems(ApplyRemoveItems(ApplyHealth(
        RecordAction(currentState, action, narrative, now),
        stateChanges), stateChanges), stateChanges), stateChanges),
      stateChanges), stateChanges), stateChanges), stateChanges))))

\* the state at line 608, before the history is cut
Reduced(currentState, action, narrative, stateChanges, now) ==
  LevelUp(AdvanceTime(DecrementEffects(
    ApplyExperience(ApplyStatusEffects(ApplyNpcRelationships(ApplyAddQuests(
      ApplyNewLocation(ApplyRemoveItems(ApplyAddItems(ApplyHealth(
        RecordAction(currentState, action, narrative, now),
        stateChanges), stateChanges), stateChanges), stateChanges),
      stateChanges), stateChanges), stateChanges), stateChanges))))

updateGameState(currentState, action, narrative, stateChanges, now) ==
  [Reduced(currentState, action, narrative, stateChanges, now)
     EXCEPT !.gameHistory = LimitHistory(@)]

\* ------------------------------------------------------------------------
\* sanitizeNarrative and parseGameResponse (utils/responseParser.js)
\* ------------------------------------------------------------------------
RECURSIVE CountLeading(_, _)
CountLeading(s, set) ==
  IF s # <<>> /\ Head(s) \in set THEN 1 + CountLeading(Tail(s), set) ELSE 0
Drop(s, n) == SubSeq(s, n + 1, Len(s))

\* narrative.replace(/^#+\s+/gm, empty)
RECURSIVE StripHeadings(_, _)
StripHeadings(s, atLineStart) ==
  LET hashes(i) == CountLeading(Drop(s, i - 1), {"#"})
      spaces(i) == CountLeading(Drop(s, i - 1 + hashes(i)), WhiteSpace)
      headings == {i \in 1..Len(s) :
                     /\ s[i] = "#"
                     /\ IF i = 1 THEN atLineStart ELSE s[i - 1] = "\n"
                     /\ spaces(i) > 0}
      first == CHOOSE i \in headings : \A j \in headings : i <= j
      after == first - 1 + hashes(first) + spaces(first)
  IN IF headings = {} THEN s
     ELSE SubSeq(s, 1, first - 1) \o StripHeadings(Drop(s, after), s[after] = "\n")

\* replace of every fenced block (three backticks, no backtick inside,
\* three backticks) by the empty string
\* the piece that stands for the backtick character
Backtick == "backtick"
Fence(s, i) == i + 2 <= Len(s) /\ \A j \in i..(i + 2) : s[j] = Backtick
\* the first backtick from position i on, 0 when there is none
NextTick(s, i) ==
  LET ticks == {j \in i..Len(s) : s[j] = Backtick}
  IN IF ticks = {} THEN 0 ELSE CHOOSE j \in ticks : \A k \in ticks : j <= k
RECURSIVE RemoveCodeBlocks(_)
RemoveCodeBlocks(s) ==
  LET blocks == {i \in 1..Len(s) :
                   Fence(s, i) /\ NextTick(s, i + 3) # 0 /\ Fence(s, NextTick(s, i + 3))}
      first == CHOOSE i \in blocks : \A j \in blocks : i <= j
  IN IF blocks = {} THEN s
     ELSE SubSeq(s, 1, first - 1)
          \o RemoveCodeBlocks(Drop(s, NextTick(s, first + 3) + 2))

\* replace(/token/gi, empty)
RECURSIVE RemoveToken(_, _)
RemoveToken(s, token) ==
  LET places == {i \in 1..(Len(s) - Len(token) + 1) :
                   /\ LowerOf(s[i]) = LowerOf(token[1])
                   /\ ToLowerCase(SubSeq(s, i, i + Len(token) - 1)) = ToLowerCase(token)}
      first == CHOOSE i \in places : \A j \in places : i <= j
  IN IF places = {} THEN s
     ELSE SubSeq(s, 1, first - 1) \o RemoveToken(Drop(s, first - 1 + Len(token)), token)

NarrativeToken == <<"N", "A", "R", "R", "A", "T", "I", "V", "E", ":">>
StateChangesToken == <<"S", "T", "A", "T", "E", "_", "C", "H", "A", "N", "G", "E", "S", ":">>
sanitizeNarrative(narrative) ==
  Trim(RemoveToken(RemoveToken(RemoveCodeBlocks(StripHeadings(narrative, TRUE)),
                               NarrativeToken), StateChangesToken))

\* A model response is given by its narrative section and by the value decoded
\* from its STATE_CHANGES section (lines 15-42); lines 44-57 are below.
ConfusedNarrative == <<"The magical forces seem confused. Please try another action.">>
parseGameResponse(rawResponse, currentGameState) ==
  IF ValidationThrows(rawResponse.changes)
    THEN [narrative |-> ConfusedNarrative, stateChanges |-> NoFields]
    ELSE [narrative |-> sanitizeNarrative(rawResponse.narrative),
          stateChanges |-> validateStateChanges(rawResponse.changes, currentGameState)]

\* ------------------------------------------------------------------------
\* The text of a model response: JSON.parse
\* ------------------------------------------------------------------------
Quote == "\""
Backslash == "\\"
MinOf(S) == CHOOSE x \in S : \A y \in S : x <= y
\* whether token stands at position i of s
At(s, i, token) ==
  i + Len(token) - 1 <= Len(s) /\ SubSeq(s, i, i + Len(token) - 1) = token
\* the first position from `from` on where token stands, 0 when there is none
Find(s, token, from) ==
  LET hits == {i \in from..Len(s) : At(s, i, token)}
  IN IF hits = {} THEN 0 ELSE MinOf(hits)
\* the first position from i on that holds none of the characters of set,
\* Len(s) + 1 when there is none
Skip(s, i, set) ==
  LET rest == {j \in i..Len(s) : s[j] \notin set}
  IN IF rest = {} THEN Len(s) + 1 ELSE MinOf(rest)

\* the property names the code reads are kept whole, as one piece
KeySpelling ==
  [health |-> <<"h", "e", "a", "l", "t", "h">>,
   addItems |-> <<"a", "d", "d", "I", "t", "e", "m", "s">>,
   removeItems |-> <<"r", "e", "m", "o", "v", "e", "I", "t", "e", "m", "s">>,
   newLocation |-> <<"n", "e", "w", "L", "o", "c", "a", "t", "i", "o", "n">>,
   addQuests |-> <<"a", "d", "d", "Q", "u", "e", "s", "t", "s">>,
   npcRelationships |-> <<"n", "p", "c", "R", "e", "l", "a", "t", "i", "o", "n",
                          "s", "h", "i", "p", "s">>,
   experience |-> <<"e", "x", "p", "e", "r", "i", "e", "n", "c", "e">>,
   statusEffects |-> <<"s", "t", "a", "t", "u", "s", "E", "f", "f", "e", "c", "t", "s">>,
   id |-> <<"i", "d">>,
   name |-> <<"n", "a", "m", "e">>,
   description |-> <<"d", "e", "s", "c", "r", "i", "p", "t", "i", "o", "n">>,
   title |-> <<"t", "i", "t", "l", "e">>,
   objectives |-> <<"o", "b", "j", "e", "c", "t", "i", "v", "e", "s">>,
   duration |-> <<"d", "u", "r", "a", "t", "i", "o", "n">>,
   effect |-> <<"e", "f", "f", "e", "c", "t">>,
   type |-> <<"t", "y", "p", "e">>,
   startingLocation |-> <<"s", "t", "a", "r", "t", "i", "n", "g", "L", "o", "c", "a",
                          "t", "i", "o", "n">>,
   introText |-> <<"i", "n", "t", "r", "o", "T", "e", "x", "t">>,
   potentialPlotHooks |-> <<"p", "o", "t", "e", "n", "t", "i", "a", "l", "P", "l", "o",
                            "t", "H", "o", "o", "k", "s">>,
   factions |-> <<"f", "a", "c", "t", "i", "o", "n", "s">>,
   keyItems |-> <<"k", "e", "y", "I", "t", "e", "m", "s">>]
PropertyName(chars) ==
  IF \E k \in DOMAIN KeySpelling : KeySpelling[k] = chars
    THEN <<CHOOSE k \in DOMAIN KeySpelling : KeySpelling[k] = chars>>
    ELSE chars
\* obj[key] = value on the entries of an object
SetEntry(entries, key, value) ==
  IF \E i \in 1..Len(entries) : entries[i][1] = key
    THEN [i \in 1..Len(entries) |->
            IF entries[i][1] = key THEN <<key, value>> ELSE entries[i]]
    ELSE Append(entries, <<key, value>>)

\* JSON.parse on integers, strings, true, false, null, arrays and objects; a
\* result is the value read and the position after it, or a failure (the
\* SyntaxError).  Fractions, exponents and \u escapes are not among the texts
\* the model draws.
JsonSpace == {" ", "\t", "\n", "\r"}
DigitSet == {Digits[i] : i \in 1..10}
Failed == [ok |-> FALSE, value |-> Undefined, next |-> 0]
Parsed(v, n) == [ok |-> TRUE, value |-> v, next |-> n]
JsonEscapes ==
  [n \in {Quote, Backslash, "/", "n", "t", "r"} |->
     CASE n = "n" -> "\n" [] n = "t" -> "\t" [] n = "r" -> "\r" [] OTHER -> n]

\* the characters of a string after its opening quote
RECURSIVE JsonChars(_, _, _)
JsonChars(s, i, acc) ==
  IF i > Len(s) THEN Failed
  ELSE IF s[i] = Quote THEN Parsed(Str(acc), i + 1)
  ELSE IF s[i] = Backslash
    THEN IF i + 1 <= Len(s) /\ s[i + 1] \in DOMAIN JsonEscapes
           THEN JsonChars(s, i + 2, Append(acc, JsonEscapes[s[i + 1]]))
           ELSE Failed
  ELSE IF s[i] \in {"\n", "\t", "\r"} THEN Failed
  ELSE JsonChars(s, i + 1, Append(acc, s[i]))

JsonNumber(s, i) ==
  LET first == IF s[i] = "-" THEN i + 1 ELSE i
      stop == Skip(s, first, DigitSet)
  IN IF stop = first THEN Failed
     ELSE IF stop - first > 1 /\ s[first] = "0" THEN Failed
     ELSE IF stop <= Len(s) /\ s[stop] \in {".", "e", "E"} THEN Failed
     ELSE LET n == DecimalValue(SubSeq(s, first, stop - 1))
          IN Parsed(Num(IF s[i] = "-" THEN 0 - n ELSE n), stop)

RECURSIVE JsonValue(_, _)
RECURSIVE JsonElements(_, _, _)
RECURSIVE JsonMembers(_, _, _)
\* the elements of an array from position i on; acc holds those read
JsonElements(s, i, acc) ==
  LET element == JsonValue(s, i)
  IN IF ~element.ok THEN Failed
     ELSE LET j == Skip(s, element.next, JsonSpace)
              read == Append(acc, element.value)
          IN IF j > Len(s) THEN Failed
             ELSE IF s[j] = "]" THEN Parsed(Arr(read), j + 1)
             ELSE IF s[j] = "," THEN JsonElements(s, j + 1, read)
             ELSE Failed
\* the members of an object from position i on; acc holds those read
JsonMembers(s, i, acc) ==
  LET k == Skip(s, i, JsonSpace)
  IN IF k > Len(s) \/ s[k] # Quote THEN Failed
     ELSE LET key == JsonChars(s, k + 1, <<>>)
          IN IF ~key.ok THEN Failed
             ELSE LET c == Skip(s, key.next, JsonSpace)
                  IN IF c > Len(s) \/ s[c] # ":" THEN Failed
                     ELSE LET member == JsonValue(s, c + 1)
                          IN IF ~member.ok THEN Failed
                             ELSE LET j == Skip(s, member.next, JsonSpace)
                                      read == SetEntry(acc, PropertyName(key.value.v),
                                                       member.value)
                                  IN IF j > Len(s) THEN Failed
                                     ELSE IF s[j] = "}" THEN Parsed(Obj(read), j + 1)
                                     ELSE IF s[j] = "," THEN JsonMembers(s, j + 1, read)
                                     ELSE Failed
JsonValue(s, i) ==
  LET j == Skip(s, i, JsonSpace)
      k == Skip(s, j + 1, JsonSpace)
  IN IF j > Len(s) THEN Failed
     ELSE IF s[j] = "{"
       THEN IF k <= Len(s) /\ s[k] = "}" THEN Parsed(Obj(<<>>), k + 1)
            ELSE JsonMembers(s, j + 1, <<>>)
     ELSE IF s[j] = "["
       THEN IF k <= Len(s) /\ s[k] = "]" THEN Parsed(Arr(<<>>), k + 1)
            ELSE JsonElements(s, j + 1, <<>>)
     ELSE IF s[j] = Quote THEN JsonChars(s, j + 1, <<>>)
     ELSE IF s[j] = "-" \/ s[j] \in DigitSet THEN JsonNumber(s, j)
     ELSE IF At(s, j, <<"t", "r", "u", "e">>) THEN Parsed(Bool(TRUE), j + 4)
     ELSE IF At(s, j, <<"f", "a", "l", "s", "e">>) THEN Parsed(Bool(FALSE), j + 5)
     ELSE IF At(s, j, <<"n", "u", "l", "l">>) THEN Parsed(Null, j + 4)
     ELSE Failed
\* JSON.parse(text): one value and nothing but whitespace after it
JsonParse(text) ==
  LET read == JsonValue(text, 1)
  IN IF read.ok /\ Skip(text, read.next, JsonSpace) > Len(text) THEN read ELSE Failed

\* ------------------------------------------------------------------------
\* extractAndFixStateChanges (utils/responseParser.js lines 261-352)
\* ------------------------------------------------------------------------
\* the result of String.prototype.match: whether the pattern matched and
\* its first group
NoMatch == [found |-> FALSE, group |-> <<>>]
Match(group) == [found |-> TRUE, group |-> group]
\* the text of "name":
KeyToken(name) == <<Quote>> \o KeySpelling[name] \o <<Quote, ":">>

\* text.match(/"name":\s*(\d+)/)
MatchDigits(text, name) ==
  LET token == KeyToken(name)
      starts == {i \in 1..Len(text) :
                   /\ At(text, i, token)
                   /\ Skip(text, i + Len(token), WhiteSpace) <= Len(text)
                   /\ text[Skip(text, i + Len(token), WhiteSpace)] \in DigitSet}
      first == Skip(text, MinOf(starts) + Len(token), WhiteSpace)
  IN IF starts = {} THEN NoMatch
     ELSE Match(SubSeq(text, first, Skip(text, first, DigitSet) - 1))

\* text.match(/"name":\s*<open>(.*?)<close>/s); with open = close = quote
\* this is /"name":\s*"([^"]*)"/
MatchBetween(text, name, open, close) ==
  LET token == KeyToken(name)
      starts == {i \in 1..Len(text) :
                   /\ At(text, i, token)
                   /\ Skip(text, i + Len(token), WhiteSpace) <= Len(text)
                   /\ text[Skip(text, i + Len(token), WhiteSpace)] = open
                   /\ Find(text, <<close>>, Skip(text, i + Len(token), WhiteSpace) + 1) # 0}
      first == Skip(text, MinOf(starts) + Len(token), WhiteSpace)
  IN IF starts = {} THEN NoMatch
     ELSE Match(SubSeq(text, first + 1, Find(text, <<close>>, first + 1) - 1))

\* s.split(sep)
RECURSIVE Split(_, _)
Split(s, sep) ==
  LET at == Find(s, <<sep>>, 1)
  IN IF at = 0 THEN <<s>>
     ELSE <<SubSeq(s, 1, at - 1)>> \o Split(SubSeq(s, at + 1, Len(s)), sep)
\* s.replace(/"/g, empty)
IsNoQuote(c) == c # Quote
RemoveQuotes(s) == SelectSeq(s, IsNoQuote)
IsNonEmpty(s) == s # <<>>
\* group.split(comma).map(trim, no quotes).filter(non-empty), as strings
ListItems(group) ==
  LET parts == Split(group, ",")
      items == SelectSeq([i \in 1..Len(parts) |-> RemoveQuotes(Trim(parts[i]))],
                         IsNonEmpty)
  IN Arr([i \in 1..Len(items) |-> Str(items[i])])

\* the pairs of text.match(/"([^"]*)":\s*([^,}]*)/g), from position i on
RECURSIVE MatchPairs(_, _)
MatchPairs(text, i) ==
  LET starts == {k \in i..Len(text) :
                   /\ text[k] = Quote
                   /\ Find(text, <<Quote>>, k + 1) # 0
                   /\ Find(text, <<Quote>>, k + 1) + 1 <= Len(text)
                   /\ text[Find(text, <<Quote>>, k + 1) + 1] = ":"}
      start == MinOf(starts)
      colon == Find(text, <<Quote>>, start + 1) + 1
      value == Skip(text, colon + 1, WhiteSpace)
      stop == Skip(text, value, {c \in {text[k] : k \in 1..Len(text)} : c \notin {",", "}"}})
  IN IF starts = {} THEN <<>>
     ELSE <<SubSeq(text, start, stop - 1)>> \o MatchPairs(text, stop)
\* lines 325-337: the key between the first two quotes of the pair, the
\* value after its first colon up to a comma or a brace
RECURSIVE PairEntries(_, _)
PairEntries(entries, pairs) ==
  IF pairs = <<>> THEN entries
  ELSE LET pair == Head(pairs)
           key == SubSeq(pair, 2, Find(pair, <<Quote>>, 2) - 1)
           from == Skip(pair, Find(pair, <<":">>, 1) + 1, WhiteSpace)
           upTo == Skip(pair, from, {c \in {pair[k] : k \in 1..Len(pair)} :
                                       c \notin {",", "}"}})
           value == Trim(SubSeq(pair, from, upTo - 1))
           numValue == StringToNumber(value)
       IN PairEntries(SetEntry(entries, PropertyName(key),
                               IF numValue.t = "nan" THEN Str(RemoveQuotes(value))
                                                     ELSE numValue),
                      Tail(pairs))

\* one entry of the recovered object, or none
Recovered(found, name, value) == IF found THEN <<Field(name, value)>> ELSE <<>>
extractAndFixStateChanges(stateChangesText) ==
  LET healthMatch == MatchDigits(stateChangesText, "health")
      addItemsMatch == MatchBetween(stateChangesText, "addItems", "[", "]")
      removeItemsMatch == MatchBetween(stateChangesText, "removeItems", "[", "]")
      newLocationMatch == MatchBetween(stateChangesText, "newLocation", "{", "}")
      idMatch == MatchBetween(newLocationMatch.group, "id", Quote, Quote)
      nameMatch == MatchBetween(newLocationMatch.group, "name", Quote, Quote)
      descMatch == MatchBetween(newLocationMatch.group, "description", Quote, Quote)
      addQuestsMatch == MatchBetween(stateChangesText, "addQuests", "[", "]")
      npcMatch == MatchBetween(stateChangesText, "npcRelationships", "{", "}")
      experienceMatch == MatchDigits(stateChangesText, "experience")
  IN Obj(Recovered(healthMatch.found, "health", Num(DecimalValue(healthMatch.group)))
         \o Recovered(addItemsMatch.group # <<>>, "addItems",
                      ListItems(addItemsMatch.group))
         \o Recovered(removeItemsMatch.group # <<>>, "removeItems",
                      ListItems(removeItemsMatch.group))
         \o Recovered(/\ newLocationMatch.group # <<>>
                      /\ idMatch.found /\ nameMatch.found /\ descMatch.found,
                      "newLocation",
                      Obj(<<Field("id", Str(idMatch.group)),
                            Field("name", Str(nameMatch.group)),
                            Field("description", Str(descMatch.group))>>))
         \o Recovered(addQuestsMatch.group # <<>>, "addQuests",
                      ListItems(addQuestsMatch.group))
         \o Recovered(npcMatch.group # <<>>, "npcRelationships",
                      Obj(PairEntries(<<>>, MatchPairs(npcMatch.group, 1))))
         \o Recovered(experienceMatch.found, "experience",
                      Num(DecimalValue(experienceMatch.group))))

\* ------------------------------------------------------------------------
\* parseGameResponse on the text of the response (lines 13-42)
\* ------------------------------------------------------------------------
\* rawResponse.match(/NARRATIVE:(.*?)(?=STATE_CHANGES:|$)/s)
MatchNarrative(rawResponse) ==
  LET start == Find(rawResponse, NarrativeToken, 1)
      from == start + Len(NarrativeToken)
      stop == Find(rawResponse, StateChangesToken, from)
  IN IF start = 0 THEN NoMatch
     ELSE Match(SubSeq(rawResponse, from,
                       IF stop = 0 THEN Len(rawResponse) ELSE stop - 1))
\* rawResponse.match(/STATE_CHANGES:(.*)/s)
MatchStateChanges(rawResponse) ==
  LET start == Find(rawResponse, StateChangesToken, 1)
  IN IF start = 0 THEN NoMatch
     ELSE Match(SubSeq(rawResponse, start + Len(StateChangesToken), Len(rawResponse)))

\* s.replace(/,\s*<close>/g, close)
RECURSIVE DropCommaBefore(_, _)
DropCommaBefore(s, close) ==
  LET commas == {i \in 1..Len(s) :
                   /\ s[i] = ","
                   /\ Skip(s, i + 1, WhiteSpace) <= Len(s)
                   /\ s[Skip(s, i + 1, WhiteSpace)] = close}
      first == MinOf(commas)
  IN IF commas = {} THEN s
     ELSE SubSeq(s, 1, first - 1) \o <<close>>
          \o DropCommaBefore(Drop(s, Skip(s, first + 1, WhiteSpace)), close)
CleanedJsonString(section) == DropCommaBefore(DropCommaBefore(Trim(section), "}"), "]")

\* a decoder without the fallback: a section that is not JSON gives no changes
DecodeStateChangesStrict(section) ==
  LET strict == JsonParse(CleanedJsonString(section))
  IN IF strict.ok THEN strict.value ELSE Obj(<<>>)
\* lines 30-41: the value of the section, by JSON.parse or else by the
\* patterns of extractAndFixStateChanges
DecodeStateChanges(section) ==
  LET strict == JsonParse(CleanedJsonString(section))
  IN IF strict.ok THEN strict.value ELSE extractAndFixStateChanges(section)

\* lines 15-42: the narrative section and the decoded state changes
ReadResponse(rawResponse) ==
  LET narrativeMatch == MatchNarrative(rawResponse)
      stateChangesMatch == MatchStateChanges(rawResponse)
  IN [narrative |-> IF narrativeMatch.group # <<>>
                      THEN Trim(narrativeMatch.group) ELSE rawResponse,
      changes |-> IF stateChangesMatch.group # <<>>
                    THEN DecodeStateChanges(stateChangesMatch.group) ELSE Obj(<<>>)]

\* parseGameResponse on the content of the completion: a string, or null
\* (rawResponse.match then throws and the catch of line 51 answers)
parseContent(content, currentGameState) ==
  IF content.t # "string"
    THEN [narrative |-> ConfusedNarrative, stateChanges |-> NoFields]
    ELSE parseGameResponse(ReadResponse(content.v), currentGameState)

\* ------------------------------------------------------------------------
\* World settings and initializeGameState
\* ------------------------------------------------------------------------
ForestEdge == <<"f", "o", "r", "e", "s", "t", "_", "e", "d", "g", "e">>
getFallbackWorld ==
  [type |-> <<"fantasy">>,
   name |-> <<"Eldoria">>,
   description |-> <<"A realm of magic and mystery, where ancient forests hide forgotten secrets and mythical creatures roam the wilderness.">>,
   startingLocation |->
     [id |-> ForestEdge,
      name |-> <<"Forest Edge">>,
      description |-> <<"A dense, misty forest with ancient trees. A narrow path winds its way between massive trunks, disappearing into the shadows. The air is thick with the scent of moss and rain.">>],
   introText |-> <<"You find yourself standing at the edge of a dense, misty forest. A narrow path winds its way between ancient trees, disappearing into the shadows. The air is thick with the scent of moss and rain. In the distance, you hear the faint sound of flowing water and what might be voices. Your journey in Eldoria begins here, at the threshold of the unknown.">>,
   potentialPlotHooks |-> << <<"Strange symbols carved into trees">>,
                             <<"Rumors of a hidden temple">>,
                             <<"Villagers disappearing in the night">> >>,
   factions |-> << <<"The Guardians of the Grove">>, <<"The Imperial Order">> >>,
   keyItems |-> << <<"Ancient Amulet">>, <<"Forest Map">> >>,
   nearbyLocations |-> << <<"village_clearing">>, <<"ancient_ruins">>, <<"mystic_grove">> >>,
   npcs |-> << <<"village_elder">>, <<"wandering_merchant">>, <<"mysterious_stranger">> >>,
   environment |-> [time |-> <<"dusk">>, weather |-> <<"misty">>, season |-> <<"autumn">>]]

\* the world types that have tables, as the characters of a response spell them
WorldTypeSpelling ==
  "fantasy" :> <<"f", "a", "n", "t", "a", "s", "y">> @@
  "sci-fi" :> <<"s", "c", "i", "-", "f", "i">> @@
  "post-apocalyptic" :> <<"p", "o", "s", "t", "-", "a", "p", "o", "c", "a", "l", "y", "p", "t", "i", "c">> @@
  "steampunk" :> <<"s", "t", "e", "a", "m", "p", "u", "n", "k">> @@
  "cyberpunk" :> <<"c", "y", "b", "e", "r", "p", "u", "n", "k">>
\* locationSets[type] || locationSets.fantasy, on type.toLowerCase()
TableKey(type) ==
  LET lower == ToLowerCase(type)
      keys == {k \in DOMAIN WorldTypeSpelling : lower = <<k>> \/ lower = WorldTypeSpelling[k]}
  IN IF keys = {} THEN "fantasy" ELSE CHOOSE k \in keys : TRUE
\* the tables of generateNearbyLocations and generateBasicNPCs, by id
LocationSets ==
  "fantasy" :> << <<"village_square">>, <<"ancient_ruins">>, <<"dark_forest">> >> @@
  "sci-fi" :> << <<"space_port">>, <<"research_lab">>, <<"alien_market">> >> @@
  "post-apocalyptic" :> << <<"ruined_city">>, <<"survivor_camp">>, <<"toxic_wastes">> >> @@
  "steampunk" :> << <<"clockwork_district">>, <<"airship_docks">>, <<"inventors_guild">> >> @@
  "cyberpunk" :> << <<"neon_market">>, <<"corporate_sector">>, <<"underground_club">> >>
generateNearbyLocations(worldData) == LocationSets[TableKey(worldData.type)]
NpcSets ==
  "fantasy" :> << <<"village_elder">>, <<"mysterious_stranger">>, <<"tavern_keeper">> >> @@
  "sci-fi" :> << <<"station_ai">>, <<"smuggler">>, <<"scientist">> >> @@
  "post-apocalyptic" :> << <<"wasteland_guide">>, <<"trade_merchant">>, <<"doctor">> >> @@
  "steampunk" :> << <<"inventor">>, <<"airship_captain">>, <<"aristocrat">> >> @@
  "cyberpunk" :> << <<"hacker">>, <<"fixer">>, <<"street_doc">> >>
generateBasicNPCs(worldData) == NpcSets[TableKey(worldData.type)]
TimeOptions ==
  << <<"dawn">>, <<"morning">>, <<"midday">>, <<"afternoon">>, <<"dusk">>, <<"evening">>,
     <<"night">>, <<"midnight">> >>
WeatherSets ==
  "fantasy" :> << <<"clear">>, <<"cloudy">>, <<"rainy">>, <<"foggy">>, <<"stormy">>, <<"windy">> >> @@
  "sci-fi" :> << <<"clear">>, <<"meteor shower">>, <<"solar flare">>, <<"artificial weather">>, <<"atmosphere fluctuation">> >> @@
  "post-apocalyptic" :> << <<"toxic haze">>, <<"acid rain">>, <<"radiation storm">>, <<"dust storm">>, <<"nuclear winter">> >> @@
  "steampunk" :> << <<"smoggy">>, <<"foggy">>, <<"rainy">>, <<"clear with airship traffic">>, <<"coal dust clouds">> >> @@
  "cyberpunk" :> << <<"acid rain">>, <<"smog">>, <<"neon-lit darkness">>, <<"pollution haze">>, <<"artificial weather">> >>
Seasons == << <<"spring">>, <<"summer">>, <<"autumn">>, <<"winter">> >>
\* Math.floor(Math.random() * length) for the three draws of
\* generateEnvironment: the indexes up to MaxDraw
Randoms == [time : 0..MaxDraw, weather : 0..MaxDraw, season : 0..MaxDraw]
generateEnvironment(worldData, random) ==
  [time |-> TimeOptions[random.time + 1],
   weather |-> WeatherSets[TableKey(worldData.type)][random.weather + 1],
   season |-> Seasons[random.season + 1]]
\* { ...worldData, nearbyLocations, npcs, environment }
enhanceWorldData(worldData, random) ==
  [field \in DOMAIN worldData \cup {"nearbyLocations", "npcs", "environment"} |->
     CASE field = "nearbyLocations" -> generateNearbyLocations(worldData)
       [] field = "npcs" -> generateBasicNPCs(worldData)
       [] field = "environment" -> generateEnvironment(worldData, random)
       [] OTHER -> worldData[field]]

StartingPoint == <<"s", "t", "a", "r", "t", "i", "n", "g", "_", "p", "o", "i", "n", "t">>
\* the names of the entries of an array of objects
EntryNames(a) == [i \in 1..Len(a.v) |-> Get(a.v[i], "name").v]
\* validated.x || array of defaults
FilledIn(a) == a.t = "array" /\ a.v # <<>>
\* validateWorldData on the value JSON.parse read; the fields of the responses
\* drawn are strings, arrays of strings, arrays of named objects, or absent,
\* but for the id of the starting location
ValidateWorldThrows(worldData) ==
  LET given == Get(worldData, "startingLocation")
  IN /\ Truthy(given)
     /\ Truthy(Get(given, "id"))
     /\ Get(given, "id").t # "string"
validateWorldData(worldData) ==
  LET Or(key, default) ==
        IF Truthy(Get(worldData, key)) THEN Get(worldData, key).v ELSE default
      given == Get(worldData, "startingLocation")
      In(key, default) == IF Truthy(Get(given, key)) THEN Get(given, key).v ELSE default
      type == Or("type", <<"fantasy">>)
      name == Or("name", <<"Unnamed Realm">>)
      startingLocation ==
        IF ~Truthy(given)
          THEN [id |-> StartingPoint,
                name |-> <<"Starting Point">>,
                description |-> <<"The beginning of your adventure.">>]
          ELSE [id |-> IF Truthy(Get(given, "id"))
                         THEN ReplaceSpaces(ToLowerCase(Get(given, "id").v))
                         ELSE StartingPoint,
                name |-> In("name", <<"Starting Point">>),
                description |-> In("description", <<"The beginning of your adventure.">>)]
      hooks == Get(worldData, "potentialPlotHooks")
      factions == Get(worldData, "factions")
      keyItems == Get(worldData, "keyItems")
  IN [type |-> type,
      name |-> name,
      description |-> Or("description", <<"A mysterious world awaiting exploration.">>),
      startingLocation |-> startingLocation,
      introText |->
        Or("introText",
           <<"Welcome to ">> \o name \o <<", a ">> \o type
             \o <<" world waiting to be explored. Your adventure begins at ">>
             \o startingLocation.name \o <<".">>),
      potentialPlotHooks |->
        IF FilledIn(hooks) THEN [i \in 1..Len(hooks.v) |-> hooks.v[i].v]
        ELSE << <<"Strange rumors of disappearances in the area">>,
                <<"A mysterious artifact that locals speak of in hushed tones">>,
                <<"Political tension between rival factions">> >>,
      factions |-> IF FilledIn(factions) THEN EntryNames(factions)
                   ELSE << <<"The Guardians">>, <<"The Seekers">> >>,
      keyItems |-> IF FilledIn(keyItems) THEN EntryNames(keyItems)
                   ELSE << <<"Ancient Map">>, <<"Strange Amulet">> >>]

\* response.match(/{[\s\S]*}/): from the first { to the last }
MatchBraces(response) ==
  LET open == Find(response, <<"{">>, 1)
      closes == {i \in 1..Len(response) : response[i] = "}" /\ i > open}
  IN IF open = 0 \/ closes = {} THEN NoMatch
     ELSE Match(SubSeq(response, open, CHOOSE i \in closes : \A j \in closes : j <= i))
\* a parser that fills a failed parse in field by field
parseWorldGenerationDefaults(response) ==
  LET jsonMatch == IF response.t = "string" THEN MatchBraces(response.v) ELSE NoMatch
      worldData == JsonParse(jsonMatch.group)
  IN IF ~jsonMatch.found \/ ~worldData.ok \/ ValidateWorldThrows(worldData.value)
       THEN validateWorldData(Obj(<<>>))
       ELSE validateWorldData(worldData.value)
\* parseWorldGeneration on the content of the completion: a string, or null
\* (response.match then throws); every failure is caught at line 295
parseWorldGeneration(response) ==
  LET jsonMatch == IF response.t = "string" THEN MatchBraces(response.v) ELSE NoMatch
      worldData == JsonParse(jsonMatch.group)
  IN IF ~jsonMatch.found \/ ~worldData.ok \/ ValidateWorldThrows(worldData.value)
       THEN getFallbackWorld
       ELSE validateWorldData(worldData.value)

\* the completion of the model call: the call threw, or it returned content
CallFailed == [ok |-> FALSE]
Completion(content) == [ok |-> TRUE, content |-> content]
\* generateWorld; worldType goes into the prompt alone
generateWorld(worldType, completion, random) ==
  IF ~completion.ok THEN getFallbackWorld
  ELSE enhanceWorldData(parseWorldGeneration(completion.content), random)

\* the draws of the sessions of turns
InitialDraws == {[time |-> 0, weather |-> 0, season |-> 0]}

\* generateWorld: the model call failed, or its response did not parse and
\* the fallback world went through enhanceWorldData
WorldSettings ==
  {getFallbackWorld} \cup {enhanceWorldData(getFallbackWorld, r) : r \in InitialDraws}

Timestamps == 0..MaxClock

Torch == <<"t", "o", "r", "c", "h">>
WaterFlask == <<"w", "a", "t", "e", "r", " ", "f", "l", "a", "s", "k">>
Map == <<"m", "a", "p">>
initializeGameState(worldSettings, now) ==
  [player |-> [name |-> <<"Adventurer">>,
               health |-> 100,
               inventory |-> <<Torch, WaterFlask, Map>>,
               quests |-> <<>>,
               experience |-> 0,
               level |-> 1,
               skills |-> <<>>,
               statusEffects |-> <<>>],
   world |-> [name |-> worldSettings.name,
              type |-> worldSettings.type,
              description |-> worldSettings.description],
   currentLocation |-> worldSettings.startingLocation,
   gameHistory |-> <<Entry("narrative", worldSettings.introText)>>,
   discoveredLocations |-> <<worldSettings.startingLocation.id>>,
   npcRelationships |-> <<>>,
   timeElapsed |-> 0,
   lastAction |-> Null,
   gameOver |-> FALSE,
   created |-> now,
   potentialPlotHooks |-> worldSettings.potentialPlotHooks,
   nearbyLocations |-> worldSettings.nearbyLocations,
   availableNpcs |-> worldSettings.npcs,
   environment |-> worldSettings.environment]

\* ------------------------------------------------------------------------
\* Model responses and player actions drawn by the model
\* ------------------------------------------------------------------------
Key == <<"k", "e", "y">>
FindKey == <<"f", "i", "n", "d", " ", "k", "e", "y">>
Poison == <<"p", "o", "i", "s", "o", "n">>
Bob == <<"B", "o", "b">>
OldCave == <<"O", "l", "d", " ", " ", "C", "a", "v", "e">>
Ghost == <<"g", "h", "o", "s", "t">>

RespEmpty == [narrative |-> <<"#", " ", "H", "i">>, changes |-> Obj(<<>>)]
RespDeath == [narrative |-> <<"o", "k">>, changes |-> Obj(<<Field("health", Num(0 - 5))>>)]
RespItems ==
  [narrative |-> <<"o", "k">>,
   changes |-> Obj(<<Field("health", Num(150)),
                     Field("addItems", Arr(<<Str(Key), Str(<<" ">> \o Key), Num(7), Str(Key)>>)),
                     Field("removeItems", Arr(<<Str(Torch), Str(Torch), Str(Ghost)>>)),
                     Field("newLocation",
                           Obj(<<Field("id", Str(<<"M", "I", "L", "L">>)),
                                 Field("name", Str(<<"The Mill">>)),
                                 Field("description", Str(<<"An old mill.">>))>>))>>)]
RespHeal ==
  [narrative |-> <<"o", "k">>,
   changes |-> Obj(<<Field("health", Str(<<"5", "0">>)), Field("experience", Num(10))>>)]
RespTrain == [narrative |-> <<"o", "k">>, changes |-> Obj(<<Field("experience", Num(95))>>)]
RespCave ==
  [narrative |-> <<"o", "k">>,
   changes |-> Obj(<<Field("newLocation",
                           Obj(<<Field("id", Str(OldCave)),
                                 Field("name", Str(OldCave)),
                                 Field("description", Str(<<"A dark cave.">>))>>)),
                     Field("addItems", Str(Torch))>>)]
RespHome ==
  [narrative |-> <<"o", "k">>,
   changes |-> Obj(<<Field("newLocation",
                           Obj(<<Field("id", Str(<<"F", "o", "r", "e", "s", "t", " ", "E", "d", "g", "e">>)),
                                 Field("name", Str(<<" ", "Forest Edge">>)),
                                 Field("description", Str(<<"Back at the forest.">>))>>))>>)]
RespVoid ==
  [narrative |-> <<"o", "k">>,
   changes |-> Obj(<<Field("newLocation",
                           Obj(<<Field("id", Arr(<<>>)),
                                 Field("name", Str(<<"Void">>)),
                                 Field("description", Str(<<"Nothing.">>))>>))>>)]
RespPoison ==
  [narrative |-> <<"o", "k">>,
   changes |-> Obj(<<Field("statusEffects",
                           Arr(<<Obj(<<Field("name", Str(Poison)),
                                       Field("duration", Num(2))>>)>>)),
                     Field("addQuests",
                           Arr(<<Str(FindKey), Str(FindKey),
                                 Obj(<<Field("title", Str(FindKey))>>)>>)),
                     Field("npcRelationships",
                           Obj(<<<<(<<" ">> \o Bob), Num(150)>>>>))>>)]
RespNull == [narrative |-> <<"o", "k">>, changes |-> Null]

Responses ==
  {RespEmpty, RespDeath, RespItems, RespHeal, RespTrain,
   RespCave, RespHome, RespVoid, RespPoison, RespNull}
\* a change of every kind at once, with a death
RespFinale ==
  [narrative |-> <<"o", "k">>,
   changes |-> Obj(<<Field("experience", Num(100)),
                     Field("statusEffects",
                           Arr(<<Obj(<<Field("name", Str(Poison)),
                                       Field("duration", Num(2))>>)>>)),
                     Field("addQuests", Arr(<<Str(FindKey)>>)),
                     Field("newLocation",
                           Obj(<<Field("id", Str(<<"m", "i", "l", "l">>)),
                                 Field("name", Str(<<"The Mill">>)),
                                 Field("description", Str(<<"An old mill.">>))>>)),
                     Field("removeItems", Arr(<<Str(Torch)>>)),
                     Field("addItems", Arr(<<Str(Key), Str(Ghost)>>)),
                     Field("health", Num(0))>>)]
LongResponses ==
  {RespEmpty, RespDeath, RespItems, RespHeal, RespTrain, RespPoison, RespFinale}

\* the contents of a completion, character by character
\* the STATE_CHANGES section has an unclosed list
TextRest ==
  <<"N", "A", "R", "R", "A", "T", "I", "V", "E", ":", " ", "Y", "o", "u",
    " ", "r", "e", "s", "t", ".", "\n", "S", "T", "A", "T", "E", "_", "C",
    "H", "A", "N", "G", "E", "S", ":", " ", "{", "\"", "h", "e", "a", "l",
    "t", "h", "\"", ":", " ", "5", "0", ",", " ", "\"", "a", "d", "d", "I",
    "t", "e", "m", "s", "\"", ":", " ", "[", "o", "o", "p", "s", "}">>
\* trailing commas, which the cleaning removes
TextTidy ==
  <<"N", "A", "R", "R", "A", "T", "I", "V", "E", ":", " ", "o", "k", "\n",
    "S", "T", "A", "T", "E", "_", "C", "H", "A", "N", "G", "E", "S", ":",
    " ", "{", "\"", "h", "e", "a", "l", "t", "h", "\"", ":", " ", "6", "0",
    ",", " ", "\"", "a", "d", "d", "I", "t", "e", "m", "s", "\"", ":", " ",
    "[", "\"", "k", "e", "y", "\"", ",", "]", ",", "}">>
\* no section markers
TextPlain ==
  <<"Y", "o", "u", " ", "s", "e", "e", " ", "n", "o", "t", "h", "i", "n",
    "g", ".">>
\* a bare word in a list and a signed health
TextLists ==
  <<"N", "A", "R", "R", "A", "T", "I", "V", "E", ":", " ", "o", "k", "\n",
    "S", "T", "A", "T", "E", "_", "C", "H", "A", "N", "G", "E", "S", ":",
    " ", "{", "\"", "a", "d", "d", "I", "t", "e", "m", "s", "\"", ":", " ",
    "[", "\"", "k", "e", "y", "\"", ",", " ", "o", "o", "p", "s", "]", ",",
    "\n", "\"", "r", "e", "m", "o", "v", "e", "I", "t", "e", "m", "s", "\"",
    ":", " ", "[", "\"", "m", "a", "p", "\"", ",", " ", "\"", "g", "h", "o",
    "s", "t", "\"", "]", ",", " ", "\"", "h", "e", "a", "l", "t", "h", "\"",
    ":", " ", "-", "5", "}">>
\* a bare quest and a doubled comma
TextQuests ==
  <<"N", "A", "R", "R", "A", "T", "I", "V", "E", ":", " ", "o", "k", "\n",
    "S", "T", "A", "T", "E", "_", "C", "H", "A", "N", "G", "E", "S", ":",
    " ", "{", "\"", "a", "d", "d", "Q", "u", "e", "s", "t", "s", "\"", ":",
    " ", "[", "f", "i", "n", "d", " ", "k", "e", "y", "]", ",", " ", "\"",
    "e", "x", "p", "e", "r", "i", "e", "n", "c", "e", "\"", ":", " ", "1",
    "2", "0", ",", ",", "}">>
\* a location and a stray word
TextPlace ==
  <<"N", "A", "R", "R", "A", "T", "I", "V", "E", ":", " ", "o", "k", "\n",
    "S", "T", "A", "T", "E", "_", "C", "H", "A", "N", "G", "E", "S", ":",
    " ", "{", "\"", "n", "e", "w", "L", "o", "c", "a", "t", "i", "o", "n",
    "\"", ":", " ", "{", "\"", "i", "d", "\"", ":", " ", "\"", "O", "l", "d",
    " ", "M", "i", "l", "l", "\"", ",", " ", "\"", "n", "a", "m", "e", "\"",
    ":", " ", "\"", "M", "i", "l", "l", "\"", ",", "\n", "\"", "d", "e", "s",
    "c", "r", "i", "p", "t", "i", "o", "n", "\"", ":", " ", "\"", "x", "\"",
    "}", " ", "o", "o", "p", "s">>
\* no NARRATIVE marker and a relationship without a value
TextBonds ==
  <<"S", "T", "A", "T", "E", "_", "C", "H", "A", "N", "G", "E", "S", ":",
    "{", "\"", "n", "p", "c", "R", "e", "l", "a", "t", "i", "o", "n", "s",
    "h", "i", "p", "s", "\"", ":", " ", "{", "\"", "B", "o", "b", "\"", ":",
    " ", "1", "5", "0", ",", " ", "\"", "E", "v", "e", "\"", ":", " ", "\"",
    "k", "i", "n", "d", "\"", ",", " ", "\"", "Z", "e", "d", "\"", ":", " ",
    "}">>
\* an empty list in a section that is not JSON
TextNoList ==
  <<"N", "A", "R", "R", "A", "T", "I", "V", "E", ":", " ", "o", "k", "\n",
    "S", "T", "A", "T", "E", "_", "C", "H", "A", "N", "G", "E", "S", ":",
    " ", "{", "\"", "a", "d", "d", "I", "t", "e", "m", "s", "\"", ":", " ",
    "[", "]", ",", " ", "\"", "h", "e", "a", "l", "t", "h", "\"", ":", " ",
    "7", " ", "o", "o", "p", "s", "}">>
\* the section is the JSON value null
TextNullChanges ==
  <<"N", "A", "R", "R", "A", "T", "I", "V", "E", ":", " ", "o", "k", "\n",
    "S", "T", "A", "T", "E", "_", "C", "H", "A", "N", "G", "E", "S", ":",
    " ", "n", "u", "l", "l">>
\* the section is a JSON number
TextNumber ==
  <<"N", "A", "R", "R", "A", "T", "I", "V", "E", ":", " ", "o", "k", "\n",
    "S", "T", "A", "T", "E", "_", "C", "H", "A", "N", "G", "E", "S", ":",
    " ", "5">>
\* a section that is JSON, with status effects
TextWhole ==
  <<"N", "A", "R", "R", "A", "T", "I", "V", "E", ":", " ", "o", "k", "\n",
    "S", "T", "A", "T", "E", "_", "C", "H", "A", "N", "G", "E", "S", ":",
    " ", "{", "\"", "s", "t", "a", "t", "u", "s", "E", "f", "f", "e", "c",
    "t", "s", "\"", ":", " ", "[", "{", "\"", "n", "a", "m", "e", "\"", ":",
    " ", "\"", "p", "o", "i", "s", "o", "n", "\"", ",", " ", "\"", "d", "u",
    "r", "a", "t", "i", "o", "n", "\"", ":", " ", "2", "}", "]", ",", "\n",
    "\"", "e", "x", "p", "e", "r", "i", "e", "n", "c", "e", "\"", ":", " ",
    "5", "}">>
\* the STATE_CHANGES marker with nothing after it
TextNoSection ==
  <<"N", "A", "R", "R", "A", "T", "I", "V", "E", ":", " ", "h", "i", "\n",
    "S", "T", "A", "T", "E", "_", "C", "H", "A", "N", "G", "E", "S", ":">>
\* the sections in the other order
TextOrder ==
  <<"S", "T", "A", "T", "E", "_", "C", "H", "A", "N", "G", "E", "S", ":",
    " ", "{", "\"", "h", "e", "a", "l", "t", "h", "\"", ":", " ", "9", "}",
    "\n", "N", "A", "R", "R", "A", "T", "I", "V", "E", ":", " ", "l", "a",
    "t", "e">>
\* a fenced block and a heading in the narrative
TextFence ==
  <<"N", "A", "R", "R", "A", "T", "I", "V", "E", ":", " ", "#", " ", "a",
    " ", Backtick, Backtick, Backtick, "x", Backtick, Backtick, Backtick,
    " ", "b", "\n", "S", "T", "A", "T", "E", "_", "C", "H", "A", "N", "G",
    "E", "S", ":", " ", "{", "}">>
\* a marker inside a marker
TextSplit ==
  <<"N", "A", "R", "R", "N", "A", "R", "R", "A", "T", "I", "V", "E", ":",
    "A", "T", "I", "V", "E", ":", " ", "h", "i">>
\* the health key twice, first without digits
TextTwice ==
  <<"N", "A", "R", "R", "A", "T", "I", "V", "E", ":", " ", "o", "k", "\n",
    "S", "T", "A", "T", "E", "_", "C", "H", "A", "N", "G", "E", "S", ":",
    " ", "{", "\"", "h", "e", "a", "l", "t", "h", "\"", ":", " ", "x", ",",
    " ", "\"", "h", "e", "a", "l", "t", "h", "\"", ":", " ", "3", "0">>
\* a boolean health and a single item
TextBool ==
  <<"N", "A", "R", "R", "A", "T", "I", "V", "E", ":", " ", "o", "k", "\n",
    "S", "T", "A", "T", "E", "_", "C", "H", "A", "N", "G", "E", "S", ":",
    " ", "{", "\"", "h", "e", "a", "l", "t", "h", "\"", ":", " ", "t", "r",
    "u", "e", ",", " ", "\"", "a", "d", "d", "I", "t", "e", "m", "s", "\"",
    ":", " ", "\"", "k", "e", "y", "\"", "}">>
\* a marker within a marker of the other kind
TextWoven ==
  <<"N", "A", "R", "R", "A", "T", "I", "V", "E", ":", " ", "Y", "o", "u",
    " ", "r", "e", "a", "d", " ", "n", "a", "r", "r", "s", "t", "a", "t",
    "e", "_", "c", "h", "a", "n", "g", "e", "s", ":", "a", "t", "i", "v",
    "e", ":", " ", "a", "n", "d", "\n", "S", "T", "A", "T", "E", "_", "C",
    "H", "A", "N", "G", "E", "S", ":", " ", "{", "}">>
\* a marker within a marker of its own kind
TextNested ==
  <<"N", "A", "R", "R", "A", "T", "I", "V", "E", ":", " ", "Y", "o", "u",
    " ", "s", "a", "y", " ", "n", "a", "r", "r", "n", "a", "r", "r", "a",
    "t", "i", "v", "e", ":", "a", "t", "i", "v", "e", ":", " ", "t", "w",
    "i", "c", "e", ".">>
Contents ==
  {Str(TextRest), Str(TextTidy), Str(TextPlain), Str(TextLists), Str(TextQuests),
   Str(TextPlace), Str(TextBonds), Str(TextNoList), Str(TextNullChanges),
   Str(TextNumber), Str(TextWhole), Str(TextNoSection), Str(TextOrder),
   Str(TextFence), Str(TextSplit), Str(TextTwice), Str(TextBool),
   Str(TextWoven), Str(TextNested), Null}

\* responses at the edges of the validator: a large experience award, a null
\* element among the quests, removeItems given as one string
RespBoon == [narrative |-> <<"o", "k">>, changes |-> Obj(<<Field("experience", Num(500))>>)]
RespNullQuest ==
  [narrative |-> <<"o", "k">>,
   changes |-> Obj(<<Field("health", Num(50)),
                     Field("addQuests", Arr(<<Null>>))>>)]
RespOddQuest ==
  [narrative |-> <<"o", "k">>,
   changes |-> Obj(<<Field("health", Num(40)),
                     Field("addQuests", Arr(<<Num(7), Str(FindKey)>>))>>)]
RespDrop ==
  [narrative |-> <<"o", "k">>,
   changes |-> Obj(<<Field("removeItems", Str(Map \o <<" ">>))>>)]
RespDropGhost ==
  [narrative |-> <<"o", "k">>,
   changes |-> Obj(<<Field("removeItems", Str(Ghost)),
                     Field("addItems", Str(Key))>>)]
EdgeResponses ==
  {RespEmpty, RespBoon, RespNullQuest, RespOddQuest, RespDrop, RespDropGhost, RespItems}
\* the responses of a session in a town: places, acquaintances and trades
Ann == <<"a", "n", "n">>
Cat == <<"c", "a", "t">>
Dan == <<"d", "a", "n">>
Eve == <<"e", "v", "e">>
\* an id with capitals and runs of whitespace
RespCamp ==
  [narrative |-> <<"o", "k">>,
   changes |-> Obj(<<Field("newLocation",
                           Obj(<<Field("id", Str(<<" ", "O", "l", "d", " ", "\t", "C", "a", "m", "p", "\n">>)),
                                 Field("name", Str(<<"Camp", " ">>)),
                                 Field("description", Str(<<"A camp.">>))>>))>>)]
\* a location without a description, beside a health
RespPartial ==
  [narrative |-> <<"o", "k">>,
   changes |-> Obj(<<Field("health", Num(70)),
                     Field("newLocation",
                           Obj(<<Field("id", Str(<<"L", "o", "s", "t", " ", "P", "a", "t", "h">>)),
                                 Field("name", Str(<<"Lost Path">>))>>))>>)]
\* a location whose id is the empty string
RespBlank ==
  [narrative |-> <<"o", "k">>,
   changes |-> Obj(<<Field("newLocation",
                           Obj(<<Field("id", Str(<<>>)),
                                 Field("name", Str(<<"Nowhere">>)),
                                 Field("description", Str(<<"No place.">>))>>))>>)]
\* relationships of every type of value
RespBonds ==
  [narrative |-> <<"o", "k">>,
   changes |-> Obj(<<Field("npcRelationships",
                           Obj(<<<<(<<" ">> \o Bob), Num(150)>>,
                                 <<Ann, Num(0 - 5)>>,
                                 <<Cat, Str(<<" ", "k", "i", "n", "d", " ">>)>>,
                                 <<Dan, Null>>,
                                 <<Eve, Arr(<<Num(1)>>)>>>>))>>)]
\* a relationship that changes and one that is no number and no string
RespFeud ==
  [narrative |-> <<"o", "k">>,
   changes |-> Obj(<<Field("npcRelationships",
                           Obj(<<<<Bob, Num(40)>>,
                                 <<Cat, Bool(TRUE)>>,
                                 <<Dan, Num(55)>>>>))>>)]
\* the same items added and removed
RespSwap ==
  [narrative |-> <<"o", "k">>,
   changes |-> Obj(<<Field("addItems", Arr(<<Str(Torch), Str(Key \o <<" ">>)>>)),
                     Field("removeItems", Arr(<<Str(Key), Str(Torch)>>))>>)]
TownResponses ==
  {RespEmpty, RespCamp, RespPartial, RespBlank, RespHome, RespBonds, RespFeud, RespSwap}

\* the responses of a session of ailments
Fever == <<"f", "e", "v", "e", "r">>
Chill == <<"c", "h", "i", "l", "l">>
Daze == <<"d", "a", "z", "e">>
\* a duration that is not whole, a name given twice, a negative duration,
\* no duration, and an element that is no object
RespFever ==
  [narrative |-> <<"o", "k">>,
   changes |-> Obj(<<Field("statusEffects",
                           Arr(<<Obj(<<Field("name", Str(<<" ">> \o Fever)),
                                       Field("description", Str(<<"hot">>)),
                                       Field("duration", Fraction(Grain + 1))>>),
                                 Obj(<<Field("name", Str(Fever)),
                                       Field("duration", Num(4))>>),
                                 Obj(<<Field("name", Str(Chill)),
                                       Field("duration", Num(0 - 1))>>),
                                 Obj(<<Field("name", Str(Daze))>>),
                                 Str(Poison)>>))>>)]
\* an effect that lasts one turn and one that lasts three
RespWeak ==
  [narrative |-> <<"o", "k">>,
   changes |-> Obj(<<Field("statusEffects",
                           Arr(<<Obj(<<Field("name", Str(Poison)),
                                       Field("duration", Num(1))>>),
                                 Obj(<<Field("name", Str(Chill)),
                                       Field("duration", Str(<<"3">>))>>)>>))>>)]
AilmentResponses == {RespEmpty, RespPoison, RespFever, RespWeak}

Actions == {<<"l", "o", "o", "k">>}

\* the contents of world-generation completions: three that parse, four that
\* do not, and one whose starting location has a number for id
TextWorldNova ==
  <<"{", "\"", "t", "y", "p", "e", "\"", ":", " ", "\"", "S", "c", "i", "-",
    "F", "i", "\"", ",", " ", "\"", "n", "a", "m", "e", "\"", ":", " ", "\"",
    "N", "o", "v", "a", "\"", ",", " ", "\"", "s", "t", "a", "r", "t", "i",
    "n", "g", "L", "o", "c", "a", "t", "i", "o", "n", "\"", ":", " ", "{",
    "\"", "i", "d", "\"", ":", " ", "\"", "D", "o", "c", "k", " ", "9", "\"",
    ",", " ", "\"", "n", "a", "m", "e", "\"", ":", " ", "\"", "D", "o", "c",
    "k", "\"", "}", "}">>
TextWorldBare ==
  <<"H", "e", "r", "e", " ", "y", "o", "u", " ", "g", "o", ":", " ", "{",
    "\"", "n", "a", "m", "e", "\"", ":", " ", "\"", "Y", "s", "\"", "}", " ",
    "E", "n", "j", "o", "y", "!">>
TextWorldFull ==
  <<"{", "\"", "t", "y", "p", "e", "\"", ":", " ", "\"", "s", "t", "e", "a",
    "m", "p", "u", "n", "k", "\"", ",", " ", "\"", "p", "o", "t", "e", "n",
    "t", "i", "a", "l", "P", "l", "o", "t", "H", "o", "o", "k", "s", "\"",
    ":", " ", "[", "\"", "a", " ", "h", "e", "i", "s", "t", "\"", "]", ",",
    " ", "\"", "f", "a", "c", "t", "i", "o", "n", "s", "\"", ":", " ", "[",
    "{", "\"", "n", "a", "m", "e", "\"", ":", " ", "\"", "G", "u", "i", "l",
    "d", "\"", "}", "]", "}">>
TextWorldProse ==
  <<"A", " ", "s", "c", "i", "-", "f", "i", " ", "w", "o", "r", "l", "d",
    " ", "n", "a", "m", "e", "d", " ", "N", "o", "v", "a", " ", "a", "w",
    "a", "i", "t", "s", ".">>
TextWorldCut ==
  <<"{", "\"", "t", "y", "p", "e", "\"", ":", " ", "\"", "s", "c", "i", "-",
    "f", "i", "\"", ",", " ", "\"", "n", "a", "m", "e", "\"", ":", " ", "\"",
    "N", "o", "v", "a", "\"", ",", " ", "\"", "d", "e", "s", "c", "r">>
TextWorldLoose ==
  <<"{", "\"", "t", "y", "p", "e", "\"", ":", " ", "\"", "s", "c", "i", "-",
    "f", "i", "\"", ",", " ", "\"", "n", "a", "m", "e", "\"", ":", " ", "N",
    "o", "v", "a", "}">>
TextWorldTwo ==
  <<"{", "\"", "n", "a", "m", "e", "\"", ":", " ", "\"", "Y", "s", "\"", "}",
    " ", "o", "r", " ", "{", "\"", "n", "a", "m", "e", "\"", ":", " ", "\"",
    "N", "o", "v", "a", "\"", "}">>
TextWorldOddId ==
  <<"{", "\"", "n", "a", "m", "e", "\"", ":", " ", "\"", "N", "o", "v", "a",
    "\"", ",", " ", "\"", "s", "t", "a", "r", "t", "i", "n", "g", "L", "o",
    "c", "a", "t", "i", "o", "n", "\"", ":", " ", "{", "\"", "i", "d", "\"",
    ":", " ", "9", "}", "}">>
WorldContents ==
  {Str(t) : t \in {TextWorldNova, TextWorldBare, TextWorldFull, TextWorldProse,
                   TextWorldCut, TextWorldLoose, TextWorldTwo, TextWorldOddId}} \cup {Null}
Completions == {CallFailed} \cup {Completion(content) : content \in WorldContents}
\* the worldType of the request: absent (the default, fantasy), or named
WorldTypes == {Null, Str(<<"s", "c", "i", "-", "f", "i">>)}

\* ------------------------------------------------------------------------
\* State and turns
\* ------------------------------------------------------------------------
VARIABLES
  gameState,  \* the game state of the player
  turn,       \* the last turn applied: its inputs, the state it started from,
              \* the parsed response and the history before the cut
  worlds,     \* the last world generateWorld returned, with its inputs
  store,      \* the database connection, the Game document of the player and
              \* the server clock
  requests    \* the processAction requests of the player, in order of arrival

vars == <<gameState, turn, worlds, store, requests>>

\* a session of turns alone: no world is generated and no request is served
NoServer ==
  /\ worlds = <<>>
  /\ store = Null
  /\ requests = <<>>

Init ==
  /\ \E worldSettings \in WorldSettings, now \in Timestamps :
       gameState = initializeGameState(worldSettings, now)
  /\ turn = [applied |-> FALSE]
  /\ NoServer

\* new Date(): the clock does not run backwards
Clock(state) == IF state.lastAction.t = "null" THEN state.created ELSE state.lastAction.timestamp
Now(state) == {now \in Timestamps : now >= Clock(state)}

\* processAction lines 95-109: parse and validate the response against the
\* current state, then reduce
ApplyTurn(action, rawResponse, now) ==
  LET parsed == parseGameResponse(rawResponse, gameState)
  IN /\ gameState' = updateGameState(gameState, action, parsed.narrative,
                                     parsed.stateChanges, now)
     /\ turn' = [applied |-> TRUE,
                 previous |-> gameState,
                 action |-> action,
                 response |-> rawResponse,
                 narrative |-> parsed.narrative,
                 stateChanges |-> parsed.stateChanges,
                 history |-> Reduced(gameState, action, parsed.narrative,
                                     parsed.stateChanges, now).gameHistory]
     /\ UNCHANGED <<worlds, store, requests>>

Next ==
  \E action \in Actions, rawResponse \in Responses, now \in Now(gameState) :
    /\ gameState.timeElapsed < MaxTurns
    /\ ApplyTurn(action, rawResponse, now)

Spec == Init /\ [][Next]_vars

\* a long session: QuietTurns turns without changes, then any turns
NextLong ==
  \E action \in Actions, rawResponse \in LongResponses, now \in Now(gameState) :
    /\ gameState.timeElapsed < MaxLongTurns
    /\ gameState.timeElapsed < QuietTurns => rawResponse = RespEmpty
    /\ ApplyTurn(action, rawResponse, now)

SpecLong == Init /\ [][NextLong]_vars

\* processAction lines 95-109 on the content of the completion
ApplyContent(action, content, now) ==
  LET parsed == parseContent(content, gameState)
  IN /\ gameState' = updateGameState(gameState, action, parsed.narrative,
                                     parsed.stateChanges, now)
     /\ turn' = [applied |-> TRUE,
                 previous |-> gameState,
                 action |-> action,
                 content |-> content,
                 narrative |-> parsed.narrative,
                 stateChanges |-> parsed.stateChanges,
                 history |-> Reduced(gameState, action, parsed.narrative,
                                     parsed.stateChanges, now).gameHistory]
     /\ UNCHANGED <<worlds, store, requests>>

\* a session whose responses are given by their text
NextParse ==
  \E action \in Actions, content \in Contents, now \in Now(gameState) :
    /\ gameState.timeElapsed < MaxParses
    /\ ApplyContent(action, content, now)

SpecParse == Init /\ [][NextParse]_vars

\* a session whose responses are the edge cases of the validator
NextEdge ==
  \E action \in Actions, rawResponse \in EdgeResponses, now \in Now(gameState) :
    /\ gameState.timeElapsed < MaxTurns
    /\ ApplyTurn(action, rawResponse, now)

SpecEdge == Init /\ [][NextEdge]_vars

\* one call of generateWorld
\* a session in a town
NextTown ==
  \E action \in Actions, rawResponse \in TownResponses, now \in Now(gameState) :
    /\ gameState.timeElapsed < MaxTurns
    /\ ApplyTurn(action, rawResponse, now)

SpecTown == Init /\ [][NextTown]_vars

\* a session of ailments
NextAilments ==
  \E action \in Actions, rawResponse \in AilmentResponses, now \in Now(gameState) :
    /\ gameState.timeElapsed < MaxTurns
    /\ ApplyTurn(action, rawResponse, now)

SpecAilments == Init /\ [][NextAilments]_vars

GenerateWorld(worldType, completion, random) ==
  /\ worlds' = <<[worldType |-> worldType,
                  completion |-> completion,
                  world |-> generateWorld(worldType, completion, random)]>>
  /\ UNCHANGED <<gameState, turn, store, requests>>

NextWorld ==
  \E worldType \in WorldTypes, completion \in Completions, random \in Randoms :
    GenerateWorld(worldType, completion, random)

\* generateWorld runs before the game state of the player exists
InitWorld ==
  /\ gameState = Null
  /\ turn = [applied |-> FALSE]
  /\ NoServer

SpecWorld == InitWorld /\ [][NextWorld]_vars

\* ------------------------------------------------------------------------
\* The server: processAction requests of one player and the Game collection
\* ------------------------------------------------------------------------
\* line 27 runs when the server requires its routes, before it calls
\* mongoose.connect: the connection is not open yet
mongoConnected == FALSE
\* the in-memory map of line 33, which no code writes
gameStates == Null

\* JSON.parse(JSON.stringify(state)) and res.json: a Date becomes its ISO string
ToISOString(date) == [iso |-> date]
JsonClone(state) ==
  IF state.lastAction.t = "null" THEN state
  ELSE [state EXCEPT !.lastAction.timestamp = ToISOString(@)]

\* the server starts before the connection opens; no document, no request
InitServer ==
  /\ gameState = Null
  /\ turn = [applied |-> FALSE]
  /\ worlds = <<>>
  /\ store = [ready |-> FALSE, game |-> Null, saves |-> 0, clock |-> 0]
  /\ requests = <<>>

\* a first-write-wins store: the document of a player is written once
saveGameStateOnce(db, state) ==
  IF db.game = Null
    THEN [db EXCEPT !.game = JsonClone(state), !.saves = @ + 1]
    ELSE [db EXCEPT !.saves = @ + 1]
\* saveGameState past the readyState check: findOneAndUpdate with upsert
\* replaces the document, whatever it holds; saves counts the writes
saveGameState(db, state) == [db EXCEPT !.game = JsonClone(state), !.saves = @ + 1]
\* loadGameState
loadGameState(db) == IF mongoConnected THEN db.game ELSE gameStates

Tick(db) == [db EXCEPT !.clock = @ + 1]
\* a request as it arrives
Request(action, body) ==
  [action |-> action,
   body |-> body,
   currentState |-> Null,
   pc |-> "received",
   status |-> 0,
   receivedAt |-> store.clock,
   finishedAt |-> 0,
   initialized |-> FALSE,
   callFailed |-> FALSE,
   writes |-> 0,
   saved |-> 0,
   response |-> Null]
Finished(request, status, response) ==
  [request EXCEPT !.pc = IF status = 200 THEN "done"
                         ELSE IF status = 400 THEN "rejected" ELSE "failed",
                  !.status = status,
                  !.finishedAt = store.clock,
                  !.response = response]
\* the states a client can put in a body: those of earlier responses
ClientStates ==
  {requests[k].response : k \in {k \in DOMAIN requests : requests[k].response # Null}}
ServerResponses == {RespEmpty, RespDeath}

\* mongoose opens the connection
Connected ==
  /\ ~store.ready
  /\ store' = Tick([store EXCEPT !.ready = TRUE])
  /\ UNCHANGED <<gameState, turn, worlds, requests>>

\* processAction lines 42-73, up to the model call: the current state is the
\* one of the body, else the saved one, else a new one, which
\* initializeGameState saves (line 718); a game that is over is rejected
Receive(action, body, completion, random) ==
  LET request == Request(action, body)
      loaded == IF body # Null THEN body ELSE loadGameState(store)
      newState == initializeGameState(generateWorld(Null, completion, random), store.clock)
  IN /\ Len(requests) < MaxRequests
     /\ IF loaded = Null
          THEN IF store.ready
                 THEN /\ store' = Tick(saveGameState(store, newState))
                      /\ requests' =
                           Append(requests,
                                  [request EXCEPT !.currentState = newState,
                                                  !.pc = "calling",
                                                  !.initialized = TRUE,
                                                  !.writes = 1,
                                                  !.saved = store.saves + 1])
                 ELSE /\ store' = Tick(store)
                      /\ requests' = Append(requests, Finished(request, 500, Null))
          ELSE /\ store' = Tick(store)
               /\ requests' =
                    Append(requests,
                           IF loaded.gameOver
                             THEN Finished([request EXCEPT !.currentState = loaded], 400, loaded)
                             ELSE [request EXCEPT !.currentState = loaded, !.pc = "calling"])
     /\ UNCHANGED <<gameState, turn, worlds>>

\* the model call of line 82 throws: the catch of line 133 answers 500
CallFails(i) ==
  /\ requests[i].pc = "calling"
  /\ requests' = [requests EXCEPT ![i] = Finished([@ EXCEPT !.callFailed = TRUE], 500, Null)]
  /\ store' = Tick(store)
  /\ UNCHANGED <<gameState, turn, worlds>>

\* lines 95-131: parse, reduce, save and answer; a save on a connection
\* that is not open throws and the catch answers 500
Complete(i, rawResponse) ==
  LET request == requests[i]
      parsed == parseGameResponse(rawResponse, request.currentState)
      updatedState == updateGameState(request.currentState, request.action,
                                      parsed.narrative, parsed.stateChanges, store.clock)
  IN /\ request.pc = "calling"
     /\ IF store.ready
          THEN /\ store' = Tick(saveGameState(store, updatedState))
               /\ requests' =
                    [requests EXCEPT ![i] =
                       Finished([@ EXCEPT !.writes = @ + 1, !.saved = store.saves + 1],
                                200, JsonClone(updatedState))]
          ELSE /\ store' = Tick(store)
               /\ requests' = [requests EXCEPT ![i] = Finished(@, 500, Null)]
     /\ UNCHANGED <<gameState, turn, worlds>>

NextServer ==
  \/ Connected
  \/ \E action \in Actions, body \in ClientStates \cup {Null},
        completion \in {CallFailed, Completion(Null)}, random \in InitialDraws :
       Receive(action, body, completion, random)
  \/ \E i \in DOMAIN requests : CallFails(i)
  \/ \E i \in DOMAIN requests, rawResponse \in ServerResponses : Complete(i, rawResponse)

SpecServer == InitServer /\ [][NextServer]_vars

\* ------------------------------------------------------------------------
\* Properties
\* ------------------------------------------------------------------------
Previous == turn.previous
Changes == turn.stateChanges
\* the entries the last turn appended, before the history was cut
Appended == SubSeq(turn.history, Len(Previous.gameHistory) + 1, Len(turn.history))
Count(list, x) == Cardinality({i \in 1..Len(list) : list[i] = x})
IsPrefix(a, b) == Len(a) <= Len(b) /\ SubSeq(b, 1, Len(a)) = a
NoDuplicates(list) == \A i, j \in 1..Len(list) : i # j => list[i] # list[j]
FieldOr(f, k, default) == IF Has(f, k) THEN f[k] ELSE default
DeathEntry == Entry("system", <<"You have died. Game over.">>)
AddedEntry(item) == Entry("system", <<"Added to inventory: ">> \o item)
RemovedEntry(item) == Entry("system", <<"Removed from inventory: ">> \o item)
LevelUpEntry(level) ==
  Entry("system", <<"Level Up! You are now level ", ToString(level), ".">>)

\* C1: in every state reached from a new game by any sequence of turns, with
\* any numeric health proposed by the model, player.health is within [0,100].
C1_HealthInRange == gameState.player.health \in 0..100
\* a turn proposed a health outside [0,100] and it was applied
C1_Witness ==
  /\ turn.applied
  /\ ToNumber(Get(turn.response.changes, "health")).t = "number"
  /\ ToNumber(Get(turn.response.changes, "health")).v \notin 0..100
  /\ Has(Changes, "health")
  /\ gameState.player.health = Changes.health

\* C2: gameOver is monotonic under the reducer: a turn applied to a state with
\* gameOver = true returns a state with gameOver = true, whatever its changes.
C2_GameOverMonotonic == (turn.applied /\ Previous.gameOver) => gameState.gameOver
\* a turn on a finished game set a positive health and levelled up
C2_Witness ==
  /\ turn.applied
  /\ Previous.gameOver
  /\ Has(Changes, "health") /\ Changes.health > 0
  /\ gameState.player.level > Previous.player.level
  /\ gameState.gameOver

\* C3: player.health <= 0 implies gameOver; a turn whose validated health is
\* <= 0 appends the death entry (right after the action and the narrative
\* entries) and sets gameOver.
C3_DeathSetsGameOver ==
  /\ gameState.player.health <= 0 => gameState.gameOver
  /\ (turn.applied /\ Has(Changes, "health") /\ Changes.health <= 0) =>
       /\ gameState.gameOver
       /\ Len(Appended) >= 3 /\ Appended[3] = DeathEntry
  /\ (turn.applied /\ ~(Has(Changes, "health") /\ Changes.health <= 0)) =>
       Count(Appended, DeathEntry) = 0
\* a turn with a validated health <= 0 was applied to a running game
C3_Witness ==
  /\ turn.applied
  /\ ~Previous.gameOver
  /\ Has(Changes, "health") /\ Changes.health <= 0
  /\ gameState.player.health <= 0

\* C4: player.inventory never contains a duplicate entry, also after turns
\* whose addItems repeat an item.
C4_InventoryNoDuplicates == NoDuplicates(gameState.player.inventory)
\* a turn added an item that its addItems list names more than once
C4_Witness ==
  /\ turn.applied
  /\ Has(Changes, "addItems")
  /\ \E i, j \in 1..Len(Changes.addItems) :
       /\ i # j /\ Changes.addItems[i] = Changes.addItems[j]
       /\ ~Includes(Previous.player.inventory, Changes.addItems[i])
       /\ Includes(gameState.player.inventory, Changes.addItems[i])

\* C5: adding an item already in the inventory changes neither the inventory
\* nor the history (no Added entry); removing an item that is not in the
\* inventory changes neither the inventory nor the history (no Removed entry).
ItemNames == {Torch, WaterFlask, Map, Key, Ghost}
C5_ItemNoOps ==
  /\ \A item \in ItemNames :
       /\ Includes(gameState.player.inventory, item) =>
            ApplyAddItems(gameState, "addItems" :> <<item>>) = gameState
       /\ ~Includes(gameState.player.inventory, item) =>
            ApplyRemoveItems(gameState, "removeItems" :> <<item>>) = gameState
  /\ turn.applied =>
       LET adds == FieldOr(Changes, "addItems", <<>>)
           removes == FieldOr(Changes, "removeItems", <<>>)
           held == Previous.player.inventory
       IN /\ \A i \in 1..Len(adds) :
               Count(Appended, AddedEntry(adds[i])) =
                 IF Includes(held, adds[i]) THEN 0 ELSE 1
          /\ \A i \in 1..Len(removes) :
               Count(Appended, RemovedEntry(removes[i])) = 1
          /\ \A item \in ItemNames :
               (~Includes(held, item) /\ ~Includes(adds, item)) =>
                 Count(Appended, RemovedEntry(item)) = 0
          /\ ((\A i \in 1..Len(adds) : Includes(held, adds[i])) /\ removes = <<>>) =>
               gameState.player.inventory = held
\* a turn added an item that was held and removed an item twice
C5_Witness ==
  /\ turn.applied
  /\ Has(Changes, "addItems") /\ Has(Changes, "removeItems")
  /\ \E i \in 1..Len(Changes.addItems) :
       Includes(Previous.player.inventory, Changes.addItems[i])
  /\ \E i, j \in 1..Len(Changes.removeItems) :
       i # j /\ Changes.removeItems[i] = Changes.removeItems[j]

\* C6: discoveredLocations is append-only (the list before a turn is a prefix
\* of the list after it) and always contains the starting location's id.
C6_DiscoveredAppendOnly ==
  /\ \E worldSettings \in WorldSettings :
       /\ worldSettings.name = gameState.world.name
       /\ Includes(gameState.discoveredLocations, worldSettings.startingLocation.id)
  /\ turn.applied => IsPrefix(Previous.discoveredLocations, gameState.discoveredLocations)
\* a turn discovered a location when another had been discovered before it
C6_Witness ==
  /\ turn.applied
  /\ Len(Previous.discoveredLocations) >= 2
  /\ Len(gameState.discoveredLocations) > Len(Previous.discoveredLocations)

\* experience gained over all levels: the thresholds consumed plus the rest
TotalExperience(state) ==
  state.player.experience + 50 * state.player.level * (state.player.level - 1)
DiscoveredEntry(location) ==
  Entry("system", <<"Discovered new location: ">> \o location.name)
QuestsAdded == Len(gameState.player.quests) - Len(Previous.player.quests)

\* C7: the +10 discovery experience and the Discovered entry are awarded
\* exactly when the turn's newLocation id is not yet in discoveredLocations;
\* a turn to a discovered id replaces currentLocation, awards nothing and
\* does not add the id again.
C7_DiscoveryExactlyWhenNew ==
  (turn.applied /\ Has(Changes, "newLocation")) =>
    LET location == Changes.newLocation
        new == ~Includes(Previous.discoveredLocations, location.id)
        gain == TotalExperience(gameState) - TotalExperience(Previous)
                  - 15 * QuestsAdded - FieldOr(Changes, "experience", 0)
    IN /\ gameState.currentLocation = location
       /\ new => /\ gameState.discoveredLocations =
                      Append(Previous.discoveredLocations, location.id)
                 /\ Count(Appended, DiscoveredEntry(location)) = 1
                 /\ gain = 10
       /\ ~new => /\ gameState.discoveredLocations = Previous.discoveredLocations
                  /\ Count(Appended, DiscoveredEntry(location)) = 0
                  /\ gain = 0

\* C8: after every turn gameHistory has at most 50 entries and is the last
\* min(50, n) entries, in order, of the previous history followed by the
\* entries the turn appended.
C8_HistoryKeepsLast50 ==
  turn.applied =>
    LET n == Len(turn.history)
        kept == Min(50, n)
    IN /\ Len(gameState.gameHistory) <= 50
       /\ IsPrefix(Previous.gameHistory, turn.history)
       /\ Len(Appended) >= 2
       /\ Len(gameState.gameHistory) = kept
       /\ \A i \in 1..kept : gameState.gameHistory[i] = turn.history[n - kept + i]
\* a turn appended at least three entries to a full history
C8_Witness ==
  /\ turn.applied
  /\ Len(Previous.gameHistory) = 50
  /\ Len(Appended) >= 3
  /\ Len(gameState.gameHistory) = 50

\* the fields a turn without changes leaves alone
Untouched(a, b) ==
  /\ a.player.name = b.player.name
  /\ a.player.health = b.player.health
  /\ a.player.inventory = b.player.inventory
  /\ a.player.quests = b.player.quests
  /\ a.player.experience = b.player.experience
  /\ a.player.level = b.player.level
  /\ a.player.skills = b.player.skills
  /\ a.world = b.world
  /\ a.currentLocation = b.currentLocation
  /\ a.discoveredLocations = b.discoveredLocations
  /\ a.npcRelationships = b.npcRelationships
  /\ a.gameOver = b.gameOver
  /\ a.created = b.created
  /\ a.potentialPlotHooks = b.potentialPlotHooks
  /\ a.nearbyLocations = b.nearbyLocations
  /\ a.availableNpcs = b.availableNpcs
  /\ a.environment = b.environment
\* the last turn had an empty validated change set and met neither a day
\* boundary nor the level threshold
PlainTurn ==
  /\ turn.applied
  /\ Changes = NoFields
  /\ gameState.timeElapsed % 24 # 0
  /\ Previous.player.experience < 100 * Previous.player.level

\* C9 as stated: a turn with an empty change set, off the day boundary and
\* the level threshold, changes only gameHistory, lastAction and timeElapsed;
\* statusEffects and every other field are unchanged.
C9_OnlyHistoryActionTime ==
  PlainTurn =>
    /\ Untouched(Previous, gameState)
    /\ gameState.player.statusEffects = Previous.player.statusEffects

\* C9 amended: such a turn changes only gameHistory, lastAction, timeElapsed
\* and player.statusEffects, where every duration drops by 1 and the effects
\* that reach 0 are removed; every other field is unchanged.
C9_OnlyHistoryActionTimeEffects ==
  PlainTurn =>
    /\ Untouched(Previous, gameState)
    /\ gameState.timeElapsed = Previous.timeElapsed + 1
    /\ gameState.lastAction.text = turn.action
    /\ Appended = <<Entry("action", turn.action), Entry("narrative", turn.narrative)>>
    /\ LET before == Previous.player.statusEffects
           alive == {i \in 1..Len(before) : before[i].duration > Grain}
           after == gameState.player.statusEffects
       IN /\ Len(after) = Cardinality(alive)
          /\ \A k \in 1..Len(after) :
               \E i \in alive :
                 /\ Cardinality({j \in alive : j < i}) = k - 1
                 /\ after[k] = [before[i] EXCEPT !.duration = @ - Grain]
\* a turn without changes ran while a status effect was active and the
\* player was hurt
C9_Witness ==
  /\ PlainTurn
  /\ Previous.player.statusEffects # <<>>
  /\ Previous.player.health < 100

\* C10: with e the experience after the turn's awards (explicit experience,
\* +10 discovery, +15 per added quest) and L the level before the turn:
\* if 100*L <= e < 100*L + 100*(L+1) the turn ends with level L+1, experience
\* e - 100*L, health 100 and a level-up entry; if e < 100*L the level is
\* unchanged and no experience is consumed.
C10_SingleLevelUp ==
  turn.applied =>
    LET L == Previous.player.level
        discovery ==
          IF Len(gameState.discoveredLocations) > Len(Previous.discoveredLocations)
            THEN 10 ELSE 0
        e == Previous.player.experience + FieldOr(Changes, "experience", 0)
               + discovery + 15 * QuestsAdded
    IN /\ (100 * L <= e /\ e < 100 * L + 100 * (L + 1)) =>
            /\ gameState.player.level = L + 1
            /\ gameState.player.experience = e - 100 * L
            /\ gameState.player.health = 100
            /\ Appended[Len(Appended)] = LevelUpEntry(L + 1)
       /\ e < 100 * L =>
            /\ gameState.player.level = L
            /\ gameState.player.experience = e
            /\ \A level \in 1..(L + 1) : Count(Appended, LevelUpEntry(level)) = 0
\* level 1 with experience 95 received +10 and a health of 50
C10_Witness ==
  /\ turn.applied
  /\ Previous.player.level = 1 /\ Previous.player.experience = 95
  /\ FieldOr(Changes, "experience", 0) = 10
  /\ FieldOr(Changes, "health", 100) = 50
  /\ gameState.player.level = 2
  /\ gameState.player.experience = 5
  /\ gameState.player.health = 100

\* C11: leveling consumes every threshold crossed in a turn: a turn applied
\* to a state with experience < 100 * level ends with experience < 100 * level,
\* also when its award crosses several thresholds at once.
C11_LevelingConsumesEveryThreshold ==
  (turn.applied /\ Previous.player.experience < 100 * Previous.player.level) =>
    gameState.player.experience < 100 * gameState.player.level

DayEntry(day) == Entry("system", <<"Day ", ToString(day), " begins. You feel refreshed.">>)
Days == 0..(MaxLongTurns \div 24 + 1)
\* the health after the health change of the last turn
HealthAfterChange == FieldOr(Changes, "health", Previous.player.health)
LevelledUp == gameState.player.level > Previous.player.level

\* C12 as stated: every turn increases timeElapsed by exactly 1; when the new
\* timeElapsed is a multiple of 24 the resulting health is min(100, h + 10),
\* h being the health after the health change of the turn, and the entry
\* Day N begins with N = timeElapsed / 24 is appended; on every other turn
\* there is no day heal and no day entry.
C12_DayBoundary ==
  turn.applied =>
    /\ gameState.timeElapsed = Previous.timeElapsed + 1
    /\ gameState.timeElapsed % 24 = 0 =>
         /\ gameState.player.health = Min(100, HealthAfterChange + 10)
         /\ \A day \in Days :
              Count(Appended, DayEntry(day)) =
                IF day = gameState.timeElapsed \div 24 THEN 1 ELSE 0
    /\ gameState.timeElapsed % 24 # 0 =>
         /\ ~LevelledUp => gameState.player.health = HealthAfterChange
         /\ \A day \in Days : Count(Appended, DayEntry(day)) = 0

\* C12 amended: as above, but a turn that also levels up ends with health
\* 100, on a day boundary and off it; the day entry is above the level-up
\* entry.
C12_DayBoundaryUnlessLevelUp ==
  turn.applied =>
    /\ gameState.timeElapsed = Previous.timeElapsed + 1
    /\ LevelledUp => gameState.player.health = 100
    /\ gameState.timeElapsed % 24 = 0 =>
         /\ ~LevelledUp => gameState.player.health = Min(100, HealthAfterChange + 10)
         /\ \A day \in Days :
              Count(Appended, DayEntry(day)) =
                IF day = gameState.timeElapsed \div 24 THEN 1 ELSE 0
         /\ LET last == Len(Appended) - (IF LevelledUp THEN 1 ELSE 0)
            IN Appended[last] = DayEntry(gameState.timeElapsed \div 24)
    /\ gameState.timeElapsed % 24 # 0 =>
         /\ ~LevelledUp => gameState.player.health = HealthAfterChange
         /\ \A day \in Days : Count(Appended, DayEntry(day)) = 0
\* a hurt player reached a day boundary and was healed by 10
C12_Witness ==
  /\ turn.applied
  /\ gameState.timeElapsed = 24
  /\ ~LevelledUp
  /\ HealthAfterChange = 50
  /\ gameState.player.health = 60

\* the STATE_CHANGES section of the content of the last turn
Section == MatchStateChanges(turn.content.v).group
StrictParseFails ==
  /\ turn.content.t = "string"
  /\ Section # <<>>
  /\ ~JsonParse(CleanedJsonString(Section)).ok
FieldNames ==
  {"health", "addItems", "removeItems", "newLocation", "addQuests",
   "npcRelationships", "experience", "statusEffects"}
\* the places of the text where "name": stands, and the first position
\* after the whitespace that follows it
KeyPlaces(text, name) == {i \in 1..Len(text) : At(text, i, KeyToken(name))}
AfterKey(text, name, i) == Skip(text, i + Len(KeyToken(name)), WhiteSpace)
\* the numbers that digits after "name": spell somewhere in the text
NumbersSpelled(text, name) ==
  {DecimalValue(SubSeq(text, AfterKey(text, name, i),
                       Skip(text, AfterKey(text, name, i), DigitSet) - 1)) :
     i \in {k \in KeyPlaces(text, name) :
              /\ AfterKey(text, name, k) <= Len(text)
              /\ text[AfterKey(text, name, k)] \in DigitSet}}
\* the text has "name": followed by open, a first character other than
\* close, and close further on
SpellsGroup(text, name, open, close) ==
  \E i \in KeyPlaces(text, name) :
    LET j == AfterKey(text, name, i)
    IN /\ j + 1 <= Len(text)
       /\ text[j] = open
       /\ text[j + 1] # close
       /\ \E k \in (j + 2)..Len(text) : text[k] = close

\* C13: parseGameResponse returns a narrative and a change set for every
\* content, without raising; when JSON.parse of the STATE_CHANGES section
\* fails, the narrative is the narrative of the response and the change set
\* holds each field whose pattern matches the section and no other: the
\* content with STATE_CHANGES {"health": 50, "addItems": [oops} gives its
\* narrative and health = 50.
C13_FallbackRecovers ==
  turn.applied =>
    /\ DOMAIN Changes \subseteq FieldNames
    /\ Len(turn.narrative) >= 0
    /\ StrictParseFails =>
         /\ turn.narrative =
              sanitizeNarrative(IF MatchNarrative(turn.content.v).group # <<>>
                                  THEN Trim(MatchNarrative(turn.content.v).group)
                                  ELSE turn.content.v)
         /\ Has(Changes, "health") <=> NumbersSpelled(Section, "health") # {}
         /\ Has(Changes, "health") =>
              \E n \in NumbersSpelled(Section, "health") : Changes.health = Min(100, n)
         /\ Has(Changes, "experience") <=> NumbersSpelled(Section, "experience") # {}
         /\ Has(Changes, "experience") =>
              Changes.experience \in NumbersSpelled(Section, "experience")
         /\ \A name \in {"addItems", "removeItems", "addQuests"} :
              Has(Changes, name) <=> SpellsGroup(Section, name, "[", "]")
         /\ Has(Changes, "npcRelationships") <=>
              SpellsGroup(Section, "npcRelationships", "{", "}")
         /\ Has(Changes, "newLocation") =>
              SpellsGroup(Section, "newLocation", "{", "}")
         /\ ~Has(Changes, "statusEffects")
    /\ turn.content = Str(TextRest) =>
         /\ turn.narrative = <<"Y", "o", "u", " ", "r", "e", "s", "t", ".">>
         /\ Changes = ("health" :> 50)
\* the content with the unclosed list was parsed and its health applied
C13_Witness ==
  /\ turn.applied
  /\ turn.content = Str(TextRest)
  /\ StrictParseFails
  /\ Changes = ("health" :> 50)
  /\ gameState.player.health = 50

\* C14: validation degrades per field: whatever the decoded change set, only
\* the offending field or element is omitted; every other well-formed field
\* of the same change set is validated as it is alone and returned, with
\* the narrative of the response.
C14_DegradesPerField ==
  (turn.applied /\ turn.response.changes.t = "object") =>
    LET raw == turn.response.changes
    IN /\ turn.narrative = sanitizeNarrative(turn.response.narrative)
       /\ \A i \in 1..Len(raw.v) :
            LET alone == Obj(<<raw.v[i]>>)
            IN ~ValidationThrows(alone) =>
                 \A name \in DOMAIN validateStateChanges(alone, Previous) :
                   /\ Has(Changes, name)
                   /\ Changes[name] = validateStateChanges(alone, Previous)[name]

\* the content of a completion is not JSON from its first { to its last }
Unparseable(completion) ==
  /\ completion.ok
  /\ \/ completion.content.t # "string"
     \/ ~MatchBraces(completion.content.v).found
     \/ ~JsonParse(MatchBraces(completion.content.v).group).ok
\* the fields of a world that a response can give
ResponseFields ==
  {"type", "name", "description", "startingLocation", "introText",
   "potentialPlotHooks", "factions", "keyItems"}

\* C15: when the content of the world-generation completion is not JSON,
\* generateWorld returns, for every requested worldType, a world named Eldoria
\* of type fantasy, and every field a response can give is the one of
\* getFallbackWorld: nothing is recovered from the text
C15_UnparseableGivesFallback ==
  \A i \in DOMAIN worlds :
    Unparseable(worlds[i].completion) =>
      /\ worlds[i].world.name = <<"Eldoria">>
      /\ worlds[i].world.type = <<"fantasy">>
      /\ \A field \in ResponseFields : worlds[i].world[field] = getFallbackWorld[field]
C15_Witness ==
  \E i \in DOMAIN worlds :
    /\ worlds[i].worldType = Str(<<"s", "c", "i", "-", "f", "i">>)
    /\ worlds[i].completion = Completion(Str(TextWorldLoose))
    /\ worlds[i].world.name = <<"Eldoria">>

\* C16: generateWorld returns getFallbackWorld whenever the content of the
\* completion is not JSON, so that any two such calls return worlds equal in
\* every field, nearbyLocations, npcs and environment included
C16_FallbackIsCanonical ==
  [][\A j \in DOMAIN worlds' :
       Unparseable(worlds'[j].completion) =>
         /\ worlds'[j].world = getFallbackWorld
         /\ \A i \in DOMAIN worlds :
              Unparseable(worlds[i].completion) => worlds[i].world = worlds'[j].world]_vars

\* C17: a request whose model call failed is answered 500 and has written
\* nothing to the Game collection, with or without a gameState in its body,
\* with or without a saved state
C17_FailedCallWritesNothing ==
  \A i \in DOMAIN requests :
    requests[i].callFailed => requests[i].status = 500 /\ requests[i].writes = 0

\* two requests that were in progress at the same time
Concurrent(i, j) ==
  /\ requests[i].receivedAt < requests[j].finishedAt
  /\ requests[j].receivedAt < requests[i].finishedAt
\* requests i and j both succeeded from the same previous state, j saved
\* after i and no save followed
LostUpdate(i, j) ==
  /\ i # j
  /\ requests[i].pc = "done" /\ requests[j].pc = "done"
  /\ Concurrent(i, j)
  /\ requests[i].currentState = requests[j].currentState
  /\ requests[i].saved < requests[j].saved
  /\ requests[j].saved = store.saves
\* C18: nothing serializes the requests of a player: when two concurrent
\* requests that read the same previous state both succeed, the saved state
\* is the one the later save wrote, one turn after the state both read; the
\* turn of the other request is not in it
C18_LastWriteWins ==
  \A i, j \in DOMAIN requests :
    LostUpdate(i, j) =>
      /\ requests[i].status = 200 /\ requests[j].status = 200
      /\ store.game = requests[j].response
      /\ store.game.timeElapsed = requests[j].currentState.timeElapsed + 1
      /\ Len(store.game.gameHistory) <= Len(requests[j].currentState.gameHistory) + 3
C18_Witness ==
  \E i, j \in DOMAIN requests :
    /\ LostUpdate(i, j)
    /\ requests[i].response.gameOver /\ ~requests[j].response.gameOver
    /\ ~store.game.gameOver

\* the turn of the state applied again, to the same previous state, action
\* and response text, when the clock reads now
Again(now) ==
  LET parsed == parseContent(turn.content, turn.previous)
  IN updateGameState(turn.previous, turn.action, parsed.narrative, parsed.stateChanges, now)
WithoutTimestamp(state) == [state EXCEPT !.lastAction.timestamp = 0]
\* C19 as stated: a second application of parseGameResponse and
\* updateGameState to the same previous state, action and response text gives
\* a state equal in every field
C19_Deterministic ==
  turn.applied => \A now \in Timestamps : Again(now) = gameState
\* C19: a second application to the same previous state, action and response
\* text gives a state equal in every field but lastAction.timestamp, which is
\* the reading of the clock at each application
C19_DeterministicButTimestamp ==
  turn.applied =>
    \A now \in Timestamps :
      /\ WithoutTimestamp(Again(now)) = WithoutTimestamp(gameState)
      /\ Again(now).lastAction.timestamp = now
C19_Witness ==
  /\ turn.applied
  /\ turn.content = Str(TextTidy)
  /\ gameState.lastAction.timestamp = 1
  /\ Again(0) # gameState
  /\ WithoutTimestamp(Again(0)) = WithoutTimestamp(gameState)

\* the removals the response of the last turn proposes: the trimmed strings
\* of the list, or the one trimmed string
Proposed ==
  LET r == Get(turn.response.changes, "removeItems")
  IN IF r.t = "array" THEN {Trim(r.v[k].v) : k \in {k \in 1..Len(r.v) : r.v[k].t = "string"}}
     ELSE IF r.t = "string" THEN {Trim(r.v)}
     ELSE {}
HeldBefore(item) == Includes(Previous.player.inventory, item)
Removals == IF Has(Changes, "removeItems") THEN Changes.removeItems ELSE <<>>
\* C20: every item of the validated removeItems is in the inventory of the
\* state the turn started from; of the removals proposed, as a list or as one
\* string, exactly those held then are kept, and the others are dropped
\* without any other effect on the validation
C20_RemovalsAreHeld ==
  turn.applied =>
    /\ \A k \in DOMAIN Removals : HeldBefore(Removals[k])
    /\ (CanRead(turn.response.changes) /\ ~ValidationThrows(turn.response.changes)) =>
         /\ {Removals[k] : k \in DOMAIN Removals} = {item \in Proposed : HeldBefore(item)}
         /\ turn.narrative = sanitizeNarrative(turn.response.narrative)
C20_Witness ==
  /\ turn.applied
  /\ turn.response \in {RespItems, RespDropGhost}
  /\ Ghost \in Proposed
  /\ ~Includes(Removals, Ghost)
  /\ ~Includes(Previous.player.inventory, Torch)
  /\ Has(Changes, "addItems")

\* an id in normal form: no capital letter and no whitespace
IsNormalized(id) ==
  \A i \in 1..Len(id) :
    id[i] \notin WhiteSpace /\ id[i] \notin {UpperCase[k] : k \in 1..26}
\* the id without its separators
RECURSIVE Letters(_)
Letters(id) ==
  IF id = <<>> THEN <<>>
  ELSE IF Head(id) \in WhiteSpace \cup {"_"} THEN Letters(Tail(id))
  ELSE <<Head(id)>> \o Letters(Tail(id))
\* the number of maximal runs of whitespace in a string
Runs(id) ==
  Cardinality({i \in 1..Len(id) :
                 id[i] \in WhiteSpace /\ (i = 1 \/ id[i - 1] \notin WhiteSpace)})
\* the location the response proposes has an id, a name and a description
ProposedLocation == Get(turn.response.changes, "newLocation")
WholeLocation ==
  /\ Truthy(ProposedLocation)
  /\ Truthy(Get(ProposedLocation, "id"))
  /\ Truthy(Get(ProposedLocation, "name"))
  /\ Truthy(Get(ProposedLocation, "description"))

ProposedRelationships ==
  LET n == Get(turn.response.changes, "npcRelationships")
  IN IF Truthy(n) /\ IsObjectType(n) THEN Entries(n) ELSE <<>>
\* the places at which the response names an NPC with a number or a string
Namings(npc) ==
  {i \in 1..Len(ProposedRelationships) :
     /\ Trim(ProposedRelationships[i][1]) = npc
     /\ ProposedRelationships[i][2].t \in {"number", "string"}}
Named == {Trim(ProposedRelationships[i][1]) : i \in 1..Len(ProposedRelationships)}
LastNaming(npc) ==
  ProposedRelationships[CHOOSE i \in Namings(npc) : \A j \in Namings(npc) : j <= i][2]

\* C22: every numeric relationship is between 0 and 100 in every state; after
\* a turn an NPC the response names with a number has that number brought
\* into 0..100, one it names with a string has the trimmed string, and every
\* other NPC, named with another type of value or not named, has the
\* relationship it had before the turn or none if it had none
C22_Relationships ==
  /\ \A npc \in DOMAIN gameState.npcRelationships :
       gameState.npcRelationships[npc].t = "number" =>
         gameState.npcRelationships[npc].v \in 0..100
  /\ (turn.applied /\ ~ValidationThrows(turn.response.changes)) =>
       \A npc \in Named \cup DOMAIN gameState.npcRelationships
                    \cup DOMAIN Previous.npcRelationships :
         IF Namings(npc) # {}
           THEN /\ npc \in DOMAIN gameState.npcRelationships
                /\ LET value == LastNaming(npc)
                   IN gameState.npcRelationships[npc] =
                        IF value.t = "number"
                          THEN Num(IF value.v < 0 THEN 0
                                   ELSE IF value.v > 100 THEN 100 ELSE value.v)
                          ELSE Str(Trim(value.v))
           ELSE /\ npc \in DOMAIN gameState.npcRelationships
                     <=> npc \in DOMAIN Previous.npcRelationships
                /\ npc \in DOMAIN Previous.npcRelationships =>
                     gameState.npcRelationships[npc] = Previous.npcRelationships[npc]
\* a turn sets two relationships, one of them anew, proposes a boolean for a
\* third, and leaves the relationship of an NPC it does not name
C22_Witness ==
  /\ turn.applied
  /\ turn.response = RespFeud
  /\ DOMAIN Previous.npcRelationships = {Bob, Ann, Cat}
  /\ Previous.npcRelationships[Bob] = Num(100)
  /\ gameState.npcRelationships[Bob] = Num(40)
  /\ gameState.npcRelationships[Dan] = Num(55)
  /\ gameState.npcRelationships[Ann] = Num(0)
  /\ gameState.npcRelationships[Cat] = Str(<<"k", "i", "n", "d">>)

\* the title under which a quest is announced: the string, or the title of
\* the object
QuestTitle(quest) == IF quest.t = "string" THEN quest.v ELSE quest.title
QuestTitles(quests) == [i \in 1..Len(quests) |-> QuestTitle(quests[i])]
IsQuestEntry(entry) ==
  entry.type = "system" /\ IsPrefix(<<"New quest: ">>, entry.text)
\* what the quests of the last turn did: the quests appended, the entries
\* that announce them and the experience they awarded
QuestsAppended ==
  SubSeq(gameState.player.quests, Len(Previous.player.quests) + 1,
         Len(gameState.player.quests))
QuestEntries == SelectSeq(Appended, IsQuestEntry)
QuestExperience ==
  TotalExperience(gameState) - TotalExperience(Previous)
    - FieldOr(Changes, "experience", 0)
    - 10 * (Len(gameState.discoveredLocations) - Len(Previous.discoveredLocations))
\* a turn appends the quests that were not present, each once, announces each
\* and awards 15 for each
QuestsAddedOnce ==
  turn.applied =>
    /\ IsPrefix(Previous.player.quests, gameState.player.quests)
    /\ \A i \in 1..Len(QuestsAppended) :
         /\ Has(Changes, "addQuests")
         /\ \E k \in 1..Len(Changes.addQuests) : Changes.addQuests[k] = QuestsAppended[i]
    /\ Has(Changes, "addQuests") =>
         \A k \in 1..Len(Changes.addQuests) :
           \E i \in 1..Len(gameState.player.quests) :
             QuestTitle(gameState.player.quests[i]) = QuestTitle(Changes.addQuests[k])
    /\ QuestEntries =
         [i \in 1..Len(QuestsAppended) |->
            Entry("system", <<"New quest: ">> \o QuestTitle(QuestsAppended[i]))]
    /\ QuestExperience = 15 * Len(QuestsAppended)
\* no two string quests are equal and no two object quests have one title
NoQuestTwice ==
  \A i, j \in 1..Len(gameState.player.quests) :
    (i # j /\ gameState.player.quests[i].t = gameState.player.quests[j].t) =>
      QuestTitle(gameState.player.quests[i]) # QuestTitle(gameState.player.quests[j])

\* C23: a quest of addQuests that is present, from an earlier turn or from
\* earlier in the list, is not appended, announced or rewarded again; each
\* quest appended is announced once and awards 15 experience; and no title
\* is that of two quests of player.quests
C23_QuestsIdempotent ==
  /\ QuestsAddedOnce
  /\ NoDuplicates(QuestTitles(gameState.player.quests))
\* C23 as amended: a quest of addQuests that is present, a string quest as an
\* equal string and an object quest as an object of the same title, is not
\* appended, announced or rewarded again; each quest appended is announced
\* once and awards 15 experience; no two string quests are equal and no two
\* object quests have one title
C23_QuestsIdempotentByKind ==
  /\ QuestsAddedOnce
  /\ NoQuestTwice
\* a turn proposes a string quest twice and an object quest of the same
\* title when both are present from an earlier turn, and appends nothing
C23_Witness ==
  /\ turn.applied
  /\ turn.response = RespPoison
  /\ Len(Changes.addQuests) = 3
  /\ QuestTitles(Previous.player.quests) = <<FindKey, FindKey>>
  /\ gameState.player.quests = Previous.player.quests
  /\ QuestEntries = <<>>
  /\ QuestExperience = 0

\* the status effects before and after the last turn, and those it validated
EffectsBefore == Previous.player.statusEffects
EffectsAfter == gameState.player.statusEffects
EffectsProposed == FieldOr(Changes, "statusEffects", <<>>)
EffectNames(effects) == {effects[i].name : i \in 1..Len(effects)}
\* the effect of a name as the turn adds it: the first one proposed
FirstProposed(name) ==
  EffectsProposed[CHOOSE i \in 1..Len(EffectsProposed) :
                    /\ EffectsProposed[i].name = name
                    /\ \A j \in 1..(i - 1) : EffectsProposed[j].name # name]
\* the duration an effect has from the start of the turn or from its addition
DurationInTurn(name) ==
  IF name \in EffectNames(EffectsBefore)
    THEN (CHOOSE e \in {EffectsBefore[i] : i \in 1..Len(EffectsBefore)} :
            e.name = name).duration
    ELSE IF FirstProposed(name).duration # 0
      THEN FirstProposed(name).duration ELSE 5 * Grain

\* C24: every turn takes 1 from the duration of every active status effect,
\* those carried over and those the turn adds (an effect is added only when
\* no active effect has its name), and removes the effects whose duration
\* becomes 0 or less; after every turn every active effect has a duration of
\* at least 1 and no two active effects have one name
C24_EffectsDecrement ==
  /\ turn.applied =>
       /\ \A name \in EffectNames(EffectsBefore) \cup EffectNames(EffectsProposed) :
            name \in EffectNames(EffectsAfter) <=> DurationInTurn(name) - Grain > 0
       /\ \A i \in 1..Len(EffectsAfter) :
            /\ EffectsAfter[i].name \in
                 EffectNames(EffectsBefore) \cup EffectNames(EffectsProposed)
            /\ EffectsAfter[i].duration = DurationInTurn(EffectsAfter[i].name) - Grain
  /\ \A i \in 1..Len(EffectsAfter) : EffectsAfter[i].duration >= Grain
  /\ \A i, j \in 1..Len(EffectsAfter) :
       i # j => EffectsAfter[i].name # EffectsAfter[j].name

\* the text has the token at some place, in some letter case
ContainsToken(text, token) ==
  \E i \in 1..(Len(text) - Len(token) + 1) :
    ToLowerCase(SubSeq(text, i, i + Len(token) - 1)) = ToLowerCase(token)

\* C25: the narrative parseGameResponse returns has no NARRATIVE: and no
\* STATE_CHANGES: token in it, in any letter case, whatever the response
C25_NarrativeHasNoMarkers ==
  turn.applied =>
    /\ ~ContainsToken(turn.narrative, NarrativeToken)
    /\ ~ContainsToken(turn.narrative, StateChangesToken)

\* the place of an entry in the order of a turn, by its type and by the
\* words its text begins with; 0 for any other entry
Rank(entry) ==
  IF entry.type = "action" THEN 1
  ELSE IF entry.type = "narrative" THEN 2
  ELSE IF entry.type # "system" \/ entry.text = <<>> THEN 0
  ELSE IF entry = DeathEntry THEN 3
  ELSE IF Head(entry.text) = "Added to inventory: " THEN 4
  ELSE IF Head(entry.text) = "Removed from inventory: " THEN 5
  ELSE IF Head(entry.text) = "Discovered new location: " THEN 6
  ELSE IF Head(entry.text) = "New quest: " THEN 7
  ELSE IF Head(entry.text) = "Status effect: " THEN 8
  ELSE IF Head(entry.text) = "Experience gained: " THEN 9
  ELSE IF Head(entry.text) = "Day " THEN 10
  ELSE IF Head(entry.text) = "Level Up! You are now level " THEN 11
  ELSE 0
Ranks(entries) == [i \in 1..Len(entries) |-> Rank(entries[i])]

\* C26: the entries a turn appends are the action, then the narrative, then
\* system entries in the order death, items added, items removed, location
\* discovered, new quests, status effects, experience gained, day begins,
\* level up
C26_EntriesInOrder ==
  turn.applied =>
    /\ Len(Appended) >= 2
    /\ Appended[1] = Entry("action", turn.action)
    /\ Appended[2] = Entry("narrative", turn.narrative)
    /\ \A i \in 3..Len(Appended) : Rank(Appended[i]) >= 3
    /\ \A i, j \in 3..Len(Appended) : i < j => Rank(Appended[i]) <= Rank(Appended[j])
\* a turn appended an entry of every kind
C26_Witness ==
  /\ turn.applied
  /\ Ranks(Appended) = <<1, 2, 3, 4, 4, 5, 6, 7, 8, 9, 10, 11>>

\* the saved game of the player is over
SavedGameOver == store.game # Null /\ store.game.gameOver
\* the step is the arrival of a request
Arrives == Len(requests') = Len(requests) + 1

\* C27: a request that arrives when the saved game of the player is over is
\* rejected with 400, makes no model call and leaves the saved game as it
\* is, with or without a gameState in its body
C27_GameOverIsFinal ==
  [][(SavedGameOver /\ Arrives) =>
       /\ requests'[Len(requests')].pc = "rejected"
       /\ requests'[Len(requests')].status = 400
       /\ store'.game = store.game
       /\ store'.saves = store.saves]_vars

\* C28: once a state is saved, loadGameState returns it, and a request
\* without a gameState in its body does not initialize and save a new game
\* over a saved one
C28_RoundTrip ==
  /\ store.saves > 0 => loadGameState(store) = store.game
  /\ \A i \in DOMAIN requests :
       (requests[i].body = Null /\ requests[i].initialized) => requests[i].saved = 1

\* the items the turn adds, and those the response both adds and removes
Additions == FieldOr(Changes, "addItems", <<>>)
AddedAndRemoved == {item \in Proposed : Includes(Additions, item)}

\* C29: an item the response both adds and removes is in the inventory after
\* the turn when it was not held before, its removal being dropped, and is
\* not in the inventory after the turn when it was held before
C29_AddAndRemove ==
  turn.applied =>
    \A item \in AddedAndRemoved :
      IF HeldBefore(item)
        THEN /\ ~Includes(gameState.player.inventory, item)
             /\ Includes(Removals, item)
        ELSE /\ Count(gameState.player.inventory, item) = 1
             /\ ~Includes(Removals, item)
\* a turn adds and removes an item that was held and one that was not
C29_Witness ==
  /\ turn.applied
  /\ turn.response = RespSwap
  /\ AddedAndRemoved = {Torch, Key}
  /\ HeldBefore(Torch)
  /\ ~HeldBefore(Key)
  /\ ~Includes(gameState.player.inventory, Torch)
  /\ Includes(gameState.player.inventory, Key)

\* the last turn validated a health of 0, completed a day, gained a level
Died == turn.applied /\ Has(Changes, "health") /\ Changes.health = 0
DayBegan == gameState.timeElapsed % DayLength = 0
LevelGained == gameState.player.level > Previous.player.level

\* C30: a turn whose validated health is 0 ends with the game over; when it
\* gains a level its health ends at 100, otherwise when it completes a day
\* its health ends at 10, otherwise at 0
C30_DeathDoesNotStopTheTurn ==
  Died =>
    /\ gameState.gameOver
    /\ Count(Appended, DeathEntry) = 1
    /\ gameState.player.health =
         IF LevelGained THEN 100 ELSE IF DayBegan THEN DayHeal ELSE 0
    /\ DayBegan =>
         \E i \in 1..Len(Appended) : Head(Appended[i].text) = "Day "
    /\ LevelGained => Count(Appended, LevelUpEntry(gameState.player.level)) = 1
\* the player died on the turn that completed a day, without gaining a level
C30_Witness ==
  /\ Died
  /\ DayBegan
  /\ ~LevelGained
  /\ gameState.gameOver
  /\ gameState.player.health = 10

====
